---- MODULE Spec2Model ----
(***************************************************************************)
(* Backup/restore orchestration core of FSSBM.py: the Scheduler control    *)
(* loop and the backup jobs it launches, the GUI thread's Enable/Disable   *)
(* handling, and the BackupRestorer stage sequence.                        *)
(*                                                                         *)
(* Time is the Unix timestamp in whole seconds.  Every thread of the       *)
(* program is a process of the model; one action is one step between two   *)
(* accesses to shared state (the config file, the Scheduler fields, the    *)
(* global ftp handle, the remote server).  Util.get_config and             *)
(* Util.save_config are each one atomic step (the configuration store is   *)
(* read and rewritten atomically); a read-modify-write of the config is    *)
(* two steps.                                                              *)
(***************************************************************************)
EXTENDS Integers, Sequences, FiniteSets, TLC

(* ------------------------------ bounds --------------------------------- *)
MaxLoops == 2          \* Scheduler.run threads that Scheduler.start may spawn
MaxGuiEvents == 2      \* user events the main window handles in one run
SysHorizon == 1        \* seconds observed after program start
MaxJobs == 2           \* backup job threads spawned by the control loops
NFiles == 2            \* files in the backup a restore uploads
MaxRequests == 2       \* lifecycle commands the user sends from the main window
MaxDirs == 2           \* directories below the root of a tree
MaxFiles == 2          \* files in a tree
MaxBackups == 3        \* directories in BACKUPS_DIR at start-up
MaxRuns == 2           \* calls of folder_size that return, on one session
SchedSlack == 310      \* seconds observed after the first run has fallen due
NChunks == 2           \* data chunks transferred by one download

(* --------------------------- program constants ------------------------- *)
MIN_AUTO_BACKUP_INTERVAL == 5
MAX_AUTO_BACKUP_INTERVAL == 60
DefaultLastRun == 1000000000          \* _DEFAULT_CONFIG["last_run"] = 10 ** 9
ReleaseEpoch == 1609459200            \* 1 January of __year__ = 2021, UTC

\* Python's None where the model needs it: no job thread, no session
NoThread == 0
NoSession == 0

Loops == 1..MaxLoops
Jobs == 1..MaxJobs

\* intervals offered by the interval selector that the runs of the model use
Intervals == {MIN_AUTO_BACKUP_INTERVAL, MAX_AUTO_BACKUP_INTERVAL}

(* ------------------- local time (datetime, naive) ---------------------- *)
\* The local zones of the machine: a zone without daylight saving time, and
\* Europe/Prague around its change from CEST to CET on 31 October 2021
\* (01:00 UTC): before `fall` west offset `dst`, from `fall` on offset `std`.
Zones ==
    { [name |-> "UTC", std |-> 0, dst |-> 0, fall |-> 1635642000],
      [name |-> "Europe/Prague", std |-> 3600, dst |-> 7200, fall |-> 1635642000] }

\* seconds to add to a timestamp u to get the local wall clock in zone z
utcoffset(z, u) == IF u < z.fall THEN z.dst ELSE z.std

\* datetime.fromtimestamp(u): the naive local wall-clock time of timestamp
\* u, as seconds since the wall-clock epoch
fromtimestamp(z, u) == u + utcoffset(z, u)

\* datetime + timedelta(minutes = m): wall-clock arithmetic; the result has
\* fold = 0 whatever the fold of the operand
timedelta_minutes(m) == 60 * m

\* datetime.timestamp() of a naive datetime t with fold = 0 (datetime._mktime):
\* solve t = local(u) for u, preferring the earlier solution when the wall
\* clock shows t twice and the later offset when it never shows t
max_fold_seconds == 86400

timestamp(z, t) ==
    LET a == fromtimestamp(z, t) - t
        u1 == t - a
        t1 == fromtimestamp(z, u1)
        b == IF t1 = t
             THEN fromtimestamp(z, u1 - max_fold_seconds) - (u1 - max_fold_seconds)
             ELSE t1 - u1
        u2 == t - b
        t2 == fromtimestamp(z, u2)
    IN  IF t1 = t /\ a = b THEN u1
        ELSE IF t2 = t THEN u2
        ELSE IF t1 = t THEN u1
        ELSE IF u1 > u2 THEN u1 ELSE u2

Max(x, y) == IF x > y THEN x ELSE y

\* the time of the next run as Scheduler.run computes it
NextRun(z, last_run, interval) ==
    timestamp(z, fromtimestamp(z, last_run) + timedelta_minutes(interval))

\* the condition under which a tick of the control loop launches a job
IsDue(z, last_run, interval, t) == NextRun(z, last_run, interval) <= t

(* ------------------------------ state ---------------------------------- *)
VARIABLES
    now,            \* datetime.datetime.now().timestamp()
    deadline,       \* the last instant the model observes
    tz,             \* the local zone of the machine
    armedAt,        \* the instant at which the run under observation began
    cfg,            \* config.json: auto_backup, interval, last_run
    stop_flag,      \* Scheduler._stop_flag
    running,        \* Scheduler.running
    thread_running, \* Scheduler.thread_running
    loop,           \* per Scheduler.run thread: pc and the locals of run()
    job,            \* per backup job thread: pc and the session it works on
    ftp,            \* the global ftp handle: a session or None
    sess,           \* the FTPManager objects created so far
    launched,       \* the instants at which job 1, job 2, ... were launched
    gui,            \* the GUI thread: pc, init_check and the locals of its handlers
    restorer,       \* the BackupRestorer thread: pc, action and the locals of run()
    server,         \* the remote game server: is it running, the command it works on
    requests,       \* the endpoints Server.send_request has been called with
    uploaded,       \* files of the backup that the restore has put on the remote
    rwin,           \* the RestoreWindow: pc, status text and progress bar
    status,         \* the global status snapshot
    poller,         \* the update_status thread: pc, the locals of Server.status, the feed read
    remote,         \* the directory tree below FTP_DIR on the FTP server
    local,          \* the directory tree of one backup below BACKUPS_DIR
    blacklist,      \* FTP_BLACKLIST
    op,             \* the transfer operation under observation: pc and results
    store,          \* the directories of BACKUPS_DIR
    BACKUPS,        \* the global list BACKUPS
    loader          \* the backup loader of start-up: pc, directories left, errors logged

envVars == <<deadline, tz, armedAt>>
schedVars == <<stop_flag, running, thread_running>>
ftpVars == <<ftp, sess>>
restoreVars == <<restorer, server, requests, uploaded, rwin>>
pollVars == <<status, poller>>
treeVars == <<remote, local, blacklist, op>>
storeVars == <<store, BACKUPS, loader>>

vars == <<now, envVars, cfg, schedVars, loop, job, ftpVars, launched, gui, restoreVars,
          pollVars, treeVars, storeVars>>

Sessions == 1..(MaxJobs + 1)

\* a progress attribute that is None
NoStream == [total_size |-> -1, cum_size |-> -1]

\* FTPManager._IOStream.__init__
IOStream(total_size) == [total_size |-> total_size, cum_size |-> 0]

\* FTPManager.__init__: a fresh session has no progress objects
NewSession == [made |-> TRUE, open |-> TRUE, down_stream |-> NoStream, up_stream |-> NoStream]

\* a session object that does not exist yet
NoSessionObject == [made |-> FALSE, open |-> FALSE, down_stream |-> NoStream, up_stream |-> NoStream]

\* a thread that has been started and has not yet returned or died
JobAlive(j) == job[j].pc \notin {"none", "done", "dead"}

\* threading.Thread.is_alive() of the handle a control loop holds
is_alive(thread) == thread # NoThread /\ JobAlive(thread)

\* the value of a local variable that holds no config (before the read of
\* a tick and after its last use)
NoConfig == [auto_backup |-> FALSE, interval |-> 0, last_run |-> 0]

\* a Scheduler.run thread that Scheduler.start has not spawned; stopped
\* records that Scheduler.stop has been called since the thread was spawned
IdleLoop == [pc |-> "idle", config |-> NoConfig, thread |-> NoThread, wake |-> 0,
             stopped |-> FALSE]

\* a job thread that no control loop has started
NoJob == [pc |-> "none", target |-> NoSession, sent |-> 0]

\* the session Util.upload_backup creates
RestoreSession == MaxJobs + 1

\* BackupRestorer.__init__: self.action = None; the thread is not started.
\* is_running holds the value of server.status.is_running the thread
\* evaluated last ("" before the first read).
NoRestorer == [pc |-> "none", action |-> "None", is_running |-> "",
               target |-> NoSession, sent |-> 0]

\* a restore thread that has ended: self.action stays as it was
Ended(r, how) == [r EXCEPT !.pc = how, !.target = NoSession, !.sent = 0]

(* ----------------------- directory trees and paths --------------------- *)
\* A string is a sequence of characters.  A directory is named by its path
\* below the root of the tree, a sequence of directory names; a file by its
\* directory, its name and its bytes.
Names == {<<"a">>, <<"b", "a">>}
FileNames == {<<"f">>, <<"a", "f">>}
Contents == {<<1>>, <<1, 2>>}

\* the directories a tree of the model can have: the root and two levels
DirUniverse ==
    {<<>>} \cup {<<n>> : n \in Names} \cup {<<n, m>> : n \in Names, m \in Names}

Parent(p) == SubSeq(p, 1, Len(p) - 1)

\* a directory that does not exist, and one that exists and is empty
NoTree == [dirs |-> {}, files |-> {}]
EmptyTree == [dirs |-> {<<>>}, files |-> {}]

\* the sets of directories that form a tree with at most maxd directories
\* below the root
DirSets(maxd) ==
    {D \in SUBSET DirUniverse :
        /\ <<>> \in D
        /\ Cardinality(D) <= maxd + 1
        /\ \A p \in D : p # <<>> => Parent(p) \in D}

\* the sets of at most maxf files in the directories D, one per name
FileSets(D, maxf) ==
    {F \in SUBSET [dir : D, name : FileNames, data : Contents] :
        /\ Cardinality(F) <= maxf
        /\ \A f \in F : \A g \in F : f.dir = g.dir /\ f.name = g.name => f = g}

Trees(maxd, maxf) ==
    UNION {{[dirs |-> D, files |-> F] : F \in FileSets(D, maxf)} : D \in DirSets(maxd)}

\* the blacklists of the runs: none, a whole name, a part of a name, a
\* name with its separator, two entries, the top itself
Blacklists ==
    { {}, {<<"a">>}, {<<"b">>}, {<<"/", "a">>}, {<<"b", "a">>, <<"f">>}, {<<".">>} }

\* no transfer operation is under observation
\* existed: the local folder was there before the download; source: the
\* remote tree the download read; target: the remote tree the upload found;
\* down_stream, up_stream: the session's progress attributes; todo: what is
\* left of an upload that is under way; cwd: the session's working
\* directory, the default root (def_wd) or the folder of the operation;
\* runs, prev: the calls of folder_size so far and what the last one returned
NoOp == [pc |-> "none", size |-> 0, ok |-> TRUE, existed |-> FALSE, source |-> NoTree,
         target |-> NoTree, down_stream |-> NoStream, up_stream |-> NoStream,
         todo |-> <<>>, cwd |-> "def_wd", runs |-> 0, prev |-> -1]

NoTransfer ==
    /\ remote = EmptyTree
    /\ local = NoTree
    /\ blacklist = {}
    /\ op = NoOp

(* --------------------------- the backup store ------------------------- *)
\* The name of a directory of BACKUPS_DIR: the text of a timestamp, as
\* download_backup writes it, another text that float() accepts ("nan"), or
\* a text that it rejects.
TimestampName(t) == [kind |-> "timestamp", id |-> t]
OtherNames == {[kind |-> "nan", id |-> 0], [kind |-> "text", id |-> 0]}

\* str(datetime.datetime.now().timestamp()) in the job thread j: the text of
\* the instant at which the thread reads the clock.  The threads read the
\* clock at different instants, so the text is one per thread; it stands
\* for itself here, the instant is not looked into.
JobDirName(j) == TimestampName(j)

\* os.mkdir(local_folder) in download_folder, OSError swallowed: a new
\* directory, with nothing in it yet
MakeBackupDir(S, name) ==
    IF \E d \in S : d.path = name THEN S
    ELSE S \cup {[path |-> name, dirs |-> <<>>]}

\* the start-up loader has run and found nothing
NoStore ==
    /\ store = {}
    /\ BACKUPS = <<>>
    /\ loader = [pc |-> "done", todo |-> {}, errors |-> 0]

\* Util.ObjectifiedDict(): a dict without keys
EmptyDict == [k \in {} |-> ""]

\* the update_status thread between two polls, with the snapshot as
\* __main__ creates it
NoPoll ==
    /\ status = EmptyDict
    /\ poller = [pc |-> "sleep", status_ |-> EmptyDict, feed |-> EmptyDict, error |-> ""]

\* the state of the restore part while nobody asks for a restore
NoRestore ==
    /\ restorer = NoRestorer
    /\ server = [is_running |-> TRUE, pending |-> "none"]
    /\ requests = <<>>
    /\ uploaded = 0
    /\ rwin = [pc |-> "none", status |-> "", progress |-> 0]

(* ------------------------------- clock --------------------------------- *)
\* a control loop that is between two calls of time.sleep(1)
LoopBusy(l) ==
    \/ loop[l].pc \in {"init", "mark", "unmark", "read", "save", "spawn"}
    \/ loop[l].pc = "sleep" /\ now >= loop[l].wake

\* The wall clock advances by one second.  One iteration of the control loop
\* takes far less than the second it then sleeps, so the clock stands still
\* while a control loop is between two sleeps; every other thread may be
\* overtaken by the clock anywhere.
Advance ==
    /\ now + 1 <= deadline
    /\ \A l \in Loops : ~LoopBusy(l)
    /\ now' = now + 1
    /\ UNCHANGED <<restoreVars, treeVars, storeVars, pollVars, envVars, cfg, schedVars, loop, job, ftpVars, launched, gui>>

(* ----------------------- Scheduler.run (one thread) -------------------- *)
\* run(): self._stop_flag = False; thread = None
LoopInit(l) ==
    /\ loop[l].pc = "init"
    /\ stop_flag' = FALSE
    /\ loop' = [loop EXCEPT ![l].pc = "sleep", ![l].thread = NoThread, ![l].wake = now]
    /\ UNCHANGED <<restoreVars, treeVars, storeVars, pollVars, now, envVars, cfg, running, thread_running, job, ftpVars, launched, gui>>

\* top of the loop (after time.sleep(1) has returned): if not self._stop_flag
LoopTest(l) ==
    /\ loop[l].pc = "sleep"
    /\ now >= loop[l].wake
    /\ loop' = [loop EXCEPT ![l].pc = IF stop_flag THEN "unmark" ELSE "mark"]
    /\ UNCHANGED <<restoreVars, treeVars, storeVars, pollVars, now, envVars, cfg, schedVars, job, ftpVars, launched, gui>>

\* self.running = True; self.thread_running = thread is not None and thread.is_alive()
LoopMark(l) ==
    /\ loop[l].pc = "mark"
    /\ running' = TRUE
    /\ thread_running' = is_alive(loop[l].thread)
    /\ loop' = [loop EXCEPT ![l].pc = "read"]
    /\ UNCHANGED <<restoreVars, treeVars, storeVars, pollVars, now, envVars, cfg, stop_flag, job, ftpVars, launched, gui>>

\* else: self.running = False; break
LoopUnmark(l) ==
    /\ loop[l].pc = "unmark"
    /\ running' = FALSE
    /\ loop' = [loop EXCEPT ![l] = [IdleLoop EXCEPT !.pc = "exit"]]
    /\ UNCHANGED <<restoreVars, treeVars, storeVars, pollVars, now, envVars, cfg, stop_flag, thread_running, job, ftpVars, launched, gui>>

\* config = Util.get_config(); interval = config.interval; last_run = config.last_run
\* if timestamp(fromtimestamp(last_run) + timedelta(minutes=interval)) <= now():
\*     config.last_run = now()
\* else: time.sleep(1)
LoopRead(l) ==
    /\ loop[l].pc = "read"
    /\ LET config == cfg
           interval == config.interval
           last_run == config.last_run
       IN  IF IsDue(tz, last_run, interval, now)
           THEN loop' = [loop EXCEPT ![l].pc = "save",
                                     ![l].config = [config EXCEPT !.last_run = now]]
           ELSE loop' = [loop EXCEPT ![l].pc = "sleep", ![l].wake = now + 1]
    /\ UNCHANGED <<restoreVars, treeVars, storeVars, pollVars, now, envVars, cfg, schedVars, job, ftpVars, launched, gui>>

\* Util.save_config(config)
LoopSave(l) ==
    /\ loop[l].pc = "save"
    /\ cfg' = loop[l].config
    /\ loop' = [loop EXCEPT ![l].pc = "spawn", ![l].config = NoConfig]
    /\ UNCHANGED <<restoreVars, treeVars, storeVars, pollVars, now, envVars, schedVars, job, ftpVars, launched, gui>>

\* a restore thread that has been started and has not ended
RestoreActive == restorer.pc \notin {"none", "done", "dead", "killed"}

\* a control loop that holds its launch back while a restore is running
LoopSpawn_NotDuringRestore(l) ==
    /\ loop[l].pc = "spawn"
    /\ ~RestoreActive
    /\ \E j \in Jobs :
          /\ job[j].pc = "none"
          /\ \A k \in Jobs : k < j => job[k].pc # "none"
          /\ job' = [job EXCEPT ![j].pc = "connect"]
          /\ loop' = [loop EXCEPT ![l].pc = "sleep", ![l].thread = j, ![l].wake = now + 1]
          /\ launched' = Append(launched, now)
    /\ UNCHANGED <<restoreVars, treeVars, storeVars, pollVars, now, envVars, cfg, schedVars, ftpVars, gui>>

\* thread = threading.Thread(target=Util.download_backup); thread.start(); time.sleep(1)
LoopSpawn(l) ==
    /\ loop[l].pc = "spawn"
    /\ \E j \in Jobs :
          /\ job[j].pc = "none"
          /\ \A k \in Jobs : k < j => job[k].pc # "none"
          /\ job' = [job EXCEPT ![j].pc = "connect"]
          /\ loop' = [loop EXCEPT ![l].pc = "sleep", ![l].thread = j, ![l].wake = now + 1]
          /\ launched' = Append(launched, now)
    /\ UNCHANGED <<restoreVars, treeVars, storeVars, pollVars, now, envVars, cfg, schedVars, ftpVars, gui>>

\* the control loops after a call of Scheduler.stop: every thread spawned
\* and not yet returned has been asked to stop
AskedToStop ==
    [l \in Loops |-> IF loop[l].pc \in {"idle", "exit"} THEN loop[l]
                     ELSE [loop[l] EXCEPT !.stopped = TRUE]]

\* a stop() that also ends the job threads in flight
StopCall_CancelsJobs ==
    /\ gui.pc = "away"
    /\ ~stop_flag
    /\ \E l \in Loops : loop[l].pc \notin {"idle", "init", "exit"}
    /\ stop_flag' = TRUE
    /\ loop' = AskedToStop
    /\ job' = [j \in Jobs |-> IF JobAlive(j) THEN [NoJob EXCEPT !.pc = "dead"] ELSE job[j]]
    /\ UNCHANGED <<restoreVars, treeVars, storeVars, pollVars, now, envVars, cfg, running, thread_running, ftpVars, launched, gui>>

\* Scheduler.stop() called by the owner of an armed scheduler
StopCall ==
    /\ gui.pc = "away"
    /\ ~stop_flag
    /\ \E l \in Loops : loop[l].pc \notin {"idle", "init", "exit"}
    /\ stop_flag' = TRUE
    /\ loop' = AskedToStop
    /\ UNCHANGED <<restoreVars, treeVars, storeVars, pollVars, now, envVars, cfg, running, thread_running, job, ftpVars, launched, gui>>

LoopStep(l) ==
    \/ LoopInit(l)
    \/ LoopTest(l)
    \/ LoopMark(l)
    \/ LoopUnmark(l)
    \/ LoopRead(l)
    \/ LoopSave(l)
    \/ LoopSpawn(l)

(* ---------------------- Util.download_backup (a job) ------------------- *)
\* ftp = FTPManager(FTP_HOST, FTP_USER, FTP_PASSWORD)
JobConnect(j) ==
    /\ job[j].pc = "connect"
    /\ sess' = [sess EXCEPT ![j] = NewSession]
    /\ ftp' = j
    /\ job' = [job EXCEPT ![j].pc = "call"]
    /\ UNCHANGED <<restoreVars, treeVars, storeVars, pollVars, now, envVars, cfg, schedVars, loop, launched, gui>>

\* ftp.download_folder(...): the global is read again; on None the call raises
\* AttributeError.  download_folder makes the backup folder first; then, on
\* a closed session folder_size raises an FTP error; otherwise
\* self.down_stream = self._IOStream(self.folder_size(...))
JobCall(j) ==
    /\ job[j].pc = "call"
    /\ store' = IF ftp = NoSession THEN store ELSE MakeBackupDir(store, JobDirName(j))
    /\ IF ftp = NoSession \/ ~sess[ftp].open
       THEN /\ job' = [job EXCEPT ![j] = [NoJob EXCEPT !.pc = "dead"]]
            /\ sess' = sess
       ELSE /\ job' = [job EXCEPT ![j].pc = "xfer", ![j].target = ftp, ![j].sent = 0]
            /\ sess' = [sess EXCEPT ![ftp].down_stream = IOStream(NChunks)]
    /\ UNCHANGED <<restoreVars, treeVars, BACKUPS, loader, pollVars, now, envVars, cfg, schedVars, loop, ftp, launched, gui>>

\* self.download(..., callback=lambda data: self.down_stream.add_size(len(data)));
\* the download raises when the session is closed or the backup folder is gone
JobChunk(j) ==
    /\ job[j].pc = "xfer"
    /\ job[j].sent < NChunks
    /\ IF sess[job[j].target].open /\ (\E d \in store : d.path = JobDirName(j))
       THEN /\ job' = [job EXCEPT ![j].sent = @ + 1]
            /\ sess' = [sess EXCEPT ![job[j].target].down_stream.cum_size = @ + 1]
       ELSE /\ job' = [job EXCEPT ![j] = [NoJob EXCEPT !.pc = "dead"]]
            /\ sess' = sess
    /\ UNCHANGED <<restoreVars, treeVars, storeVars, pollVars, now, envVars, cfg, schedVars, loop, ftp, launched, gui>>

\* variant: a job that fails removes the folder it has made
JobFail_RollsBack(j) ==
    /\ job[j].pc = "xfer"
    /\ job[j].sent < NChunks
    /\ job' = [job EXCEPT ![j] = [NoJob EXCEPT !.pc = "dead"]]
    /\ store' = {d \in store : d.path # JobDirName(j)}
    /\ UNCHANGED <<restoreVars, treeVars, BACKUPS, loader, pollVars, now, envVars, cfg, schedVars, loop, ftpVars, launched, gui>>

\* the connection drops during the walk: the exception ends the job thread
JobFail(j) ==
    /\ job[j].pc = "xfer"
    /\ job[j].sent < NChunks
    /\ job' = [job EXCEPT ![j] = [NoJob EXCEPT !.pc = "dead"]]
    /\ UNCHANGED <<restoreVars, treeVars, storeVars, pollVars, now, envVars, cfg, schedVars, loop, ftpVars, launched, gui>>

\* download_folder returns; ftp.close(): the global is read again
JobClose(j) ==
    /\ job[j].pc = "xfer"
    /\ job[j].sent = NChunks
    /\ IF ftp = NoSession
       THEN /\ job' = [job EXCEPT ![j] = [NoJob EXCEPT !.pc = "dead"]]
            /\ sess' = sess
       ELSE /\ job' = [job EXCEPT ![j] = [NoJob EXCEPT !.pc = "clear"]]
            /\ sess' = [sess EXCEPT ![ftp].open = FALSE]
    /\ UNCHANGED <<restoreVars, treeVars, storeVars, pollVars, now, envVars, cfg, schedVars, loop, ftp, launched, gui>>

\* ftp = None
JobClear(j) ==
    /\ job[j].pc = "clear"
    /\ ftp' = NoSession
    /\ job' = [job EXCEPT ![j] = [NoJob EXCEPT !.pc = "done"]]
    /\ UNCHANGED <<restoreVars, treeVars, storeVars, pollVars, now, envVars, cfg, schedVars, loop, sess, launched, gui>>

JobStep(j) ==
    \/ JobConnect(j)
    \/ JobCall(j)
    \/ JobChunk(j)
    \/ JobFail(j)
    \/ JobClose(j)
    \/ JobClear(j)

(* ------------- a single control loop, armed (SpecSched) ---------------- *)
\* the loop was armed at t0, the config holds last_run = t0 and auto-backup
\* is on; t0 lies in the last minutes of summer time, in the hour the wall
\* clock repeats, or on an ordinary day
StartTimes(z) ==
    IF z.dst = z.std THEN {z.fall + 90000} ELSE {z.fall - 200, z.fall + 10, z.fall + 90000}

InitSched ==
    /\ tz \in Zones
    /\ now \in StartTimes(tz)
    /\ armedAt = now
    /\ \E i \in Intervals : 
          /\ cfg = [auto_backup |-> TRUE, interval |-> i, last_run |-> now]
          /\ deadline = Max(NextRun(tz, now, i), now) + SchedSlack
    /\ stop_flag = FALSE
    /\ running = FALSE
    /\ thread_running = FALSE
    /\ loop = [l \in Loops |-> IF l = 1 THEN [IdleLoop EXCEPT !.pc = "init"] ELSE IdleLoop]
    /\ job = [j \in Jobs |-> NoJob]
    /\ ftp = NoSession
    /\ sess = [s \in Sessions |-> NoSessionObject]
    /\ NoRestore
    /\ NoPoll
    /\ NoTransfer
    /\ NoStore
    /\ launched = <<>>
    /\ gui = [pc |-> "away", ret |-> "read", config |-> NoConfig, value |-> FALSE,
              init_check |-> TRUE, events |-> 0]

NextSched ==
    \/ Advance
    \/ StopCall
    \/ \E l \in Loops : LoopStep(l)
    \/ \E j \in Jobs : JobStep(j)

SpecSched == InitSched /\ [][NextSched]_vars

(* -------------------- MainWindow (the GUI thread) ---------------------- *)
\* a default config whose last_run lies in the future (year 2033)
DefaultConfig_FarFuture(i) == [auto_backup |-> FALSE, interval |-> i, last_run |-> 2000000000]

\* _DEFAULT_CONFIG, the scheduler keys; interval is MIN_AUTO_BACKUP_INTERVAL
\* until the user edits the file
DefaultConfig(i) == [auto_backup |-> FALSE, interval |-> i, last_run |-> DefaultLastRun]

\* event_loop: a user event arrives in window.read().  Enable starts the
\* scheduler unless scheduler.running; Disable stops it; Reload, and Delete
\* in the details window, redraw the main window: MainWindow.__init__ resets
\* init_check and a new event loop begins.
GuiEvent ==
    /\ gui.pc = "read"
    /\ gui.events < MaxGuiEvents
    /\ \E e \in {"Enable", "Disable", "Redraw"} :
          gui' = [gui EXCEPT
                    !.events = @ + 1,
                    !.pc = CASE e = "Enable" -> IF running THEN "initchk" ELSE "start"
                             [] e = "Disable" -> "stop"
                             [] OTHER -> "read",
                    !.ret = IF e = "Redraw" \/ (e = "Enable" /\ running) THEN "read" ELSE "initchk",
                    !.init_check = IF e = "Redraw" THEN FALSE ELSE @]
    /\ UNCHANGED <<restoreVars, treeVars, storeVars, pollVars, now, envVars, cfg, schedVars, loop, job, ftpVars, launched>>

\* event_loop: window.read(timeout=250) times out; only the start-up check
\* below can then change anything
GuiTimeout ==
    /\ gui.pc = "read"
    /\ ~gui.init_check
    /\ gui' = [gui EXCEPT !.pc = "initchk"]
    /\ UNCHANGED <<restoreVars, treeVars, storeVars, pollVars, now, envVars, cfg, schedVars, loop, job, ftpVars, launched>>

\* event_loop: if not self.init_check: self.init_check = True;
\*             if Util.get_config().auto_backup: self.start_scheduler()
GuiInitCheck ==
    /\ gui.pc = "initchk"
    /\ gui' = [gui EXCEPT !.init_check = TRUE, !.ret = "read",
                          !.pc = IF ~gui.init_check /\ cfg.auto_backup THEN "start" ELSE "read"]
    /\ UNCHANGED <<restoreVars, treeVars, storeVars, pollVars, now, envVars, cfg, schedVars, loop, job, ftpVars, launched>>

\* start_scheduler: scheduler.start() spawns a thread that executes run()
Scheduler_start ==
    /\ gui.pc = "start"
    /\ \E l \in Loops :
          /\ loop[l].pc \in {"idle", "exit"}
          /\ \A k \in Loops : k < l => loop[k].pc \notin {"idle", "exit"}
          /\ loop' = [loop EXCEPT ![l] = [IdleLoop EXCEPT !.pc = "init"]]
    /\ gui' = [gui EXCEPT !.pc = "get", !.value = TRUE]
    /\ UNCHANGED <<restoreVars, treeVars, storeVars, pollVars, now, envVars, cfg, schedVars, job, ftpVars, launched>>

\* stop_scheduler: scheduler.stop() sets the stop flag
Scheduler_stop ==
    /\ gui.pc = "stop"
    /\ stop_flag' = TRUE
    /\ loop' = AskedToStop
    /\ gui' = [gui EXCEPT !.pc = "get", !.value = FALSE]
    /\ UNCHANGED <<restoreVars, treeVars, storeVars, pollVars, now, envVars, cfg, running, thread_running, job, ftpVars, launched>>

\* start_scheduler / stop_scheduler: config = Util.get_config()
GuiGetConfig ==
    /\ gui.pc = "get"
    /\ gui' = [gui EXCEPT !.pc = "save", !.config = cfg]
    /\ UNCHANGED <<restoreVars, treeVars, storeVars, pollVars, now, envVars, cfg, schedVars, loop, job, ftpVars, launched>>

\* start_scheduler / stop_scheduler: config.auto_backup = ...; Util.save_config(config)
GuiSaveConfig ==
    /\ gui.pc = "save"
    /\ cfg' = [gui.config EXCEPT !.auto_backup = gui.value]
    /\ gui' = [gui EXCEPT !.pc = gui.ret, !.ret = "read", !.config = NoConfig, !.value = FALSE]
    /\ UNCHANGED <<restoreVars, treeVars, storeVars, pollVars, now, envVars, schedVars, loop, job, ftpVars, launched>>

GuiStep ==
    \/ GuiEvent
    \/ GuiTimeout
    \/ GuiInitCheck
    \/ Scheduler_start
    \/ Scheduler_stop
    \/ GuiGetConfig
    \/ GuiSaveConfig

(* ------- the GUI thread and the control loops it starts (SpecGui) ------ *)
\* config.json at start-up: the default of a fresh install, or what an
\* earlier run left: auto-backup on or off and a last run that falls due
\* one second after start-up
InitConfigs(t) ==
    {DefaultConfig(i) : i \in Intervals}
    \cup {[auto_backup |-> a, interval |-> MIN_AUTO_BACKUP_INTERVAL,
           last_run |-> t + 1 - timedelta_minutes(MIN_AUTO_BACKUP_INTERVAL)] : a \in BOOLEAN}

InitGui ==
    /\ tz \in {z \in Zones : z.name = "Europe/Prague"}
    /\ now \in {ReleaseEpoch, tz.fall + 90000}
    /\ armedAt = now
    /\ deadline = now + SysHorizon
    /\ cfg \in InitConfigs(now)
    /\ stop_flag = FALSE
    /\ running = FALSE
    /\ thread_running = FALSE
    /\ loop = [l \in Loops |-> IdleLoop]
    /\ job = [j \in Jobs |-> NoJob]
    /\ ftp = NoSession
    /\ sess = [s \in Sessions |-> NoSessionObject]
    /\ NoRestore
    /\ NoPoll
    /\ NoTransfer
    /\ NoStore
    /\ launched = <<>>
    /\ gui = [pc |-> "read", ret |-> "read", config |-> NoConfig, value |-> FALSE,
              init_check |-> FALSE, events |-> 0]

\* the steps of the GUI thread and of the control loops; the job threads the
\* loops start stay alive (their steps are those of SpecSched)
NextGui ==
    \/ Advance
    \/ GuiStep
    \/ \E l \in Loops : LoopStep(l)

SpecGui == InitGui /\ [][NextGui]_vars

(* ------------- EditorWindow on config.json (SpecEditor) ---------------- *)
\* what the user can make of the interval in the text of the editor: a
\* value of the selector's range, or one below or above it
EditedIntervals ==
    {MIN_AUTO_BACKUP_INTERVAL - 1, MIN_AUTO_BACKUP_INTERVAL, MAX_AUTO_BACKUP_INTERVAL + 1}

\* event_loop, "Config": EditorWindow(CONFIG_FILENAME).show();
\* EditorWindow.__init__ reads the lines of the file, show() prints them into
\* the text element and runs the editor's own event loop
GuiConfig ==
    /\ gui.pc = "read"
    /\ gui.events < MaxGuiEvents
    /\ gui' = [gui EXCEPT !.pc = "editor", !.events = @ + 1, !.config = cfg]
    /\ UNCHANGED <<restoreVars, treeVars, storeVars, pollVars, now, envVars, cfg, schedVars, loop, job, ftpVars, launched>>

\* the user types in the text element: another number after "interval"
EditorEdit ==
    /\ gui.pc = "editor"
    /\ \E i \in EditedIntervals :
          /\ i # gui.config.interval
          /\ gui' = [gui EXCEPT !.config.interval = i]
    /\ UNCHANGED <<restoreVars, treeVars, storeVars, pollVars, now, envVars, cfg, schedVars, loop, job, ftpVars, launched>>

\* EditorWindow.save: file.write(values["__TEXT__"]), the text as it stands
EditorSave ==
    /\ gui.pc = "editor"
    /\ cfg' = gui.config
    /\ UNCHANGED <<restoreVars, treeVars, storeVars, pollVars, now, envVars, schedVars, loop, job, ftpVars, launched, gui>>

\* the editor is closed (unsaved changes are dropped); the main event loop
\* goes on with the rest of its iteration
EditorClose ==
    /\ gui.pc = "editor"
    /\ gui' = [gui EXCEPT !.pc = "initchk", !.ret = "read", !.config = NoConfig]
    /\ UNCHANGED <<restoreVars, treeVars, storeVars, pollVars, now, envVars, cfg, schedVars, loop, job, ftpVars, launched>>

EditorStep ==
    \/ GuiConfig
    \/ EditorEdit
    \/ EditorSave
    \/ EditorClose

\* the main window comes up with auto-backup on, a selector interval and a
\* last run that falls due one second after start-up
InitEditor ==
    /\ tz \in {z \in Zones : z.name = "UTC"}
    /\ now = ReleaseEpoch
    /\ armedAt = now
    /\ deadline = now + SysHorizon
    /\ cfg \in {[auto_backup |-> TRUE, interval |-> i,
                  last_run |-> now + 1 - timedelta_minutes(i)] : i \in Intervals}
    /\ stop_flag = FALSE
    /\ running = FALSE
    /\ thread_running = FALSE
    /\ loop = [l \in Loops |-> IdleLoop]
    /\ job = [j \in Jobs |-> NoJob]
    /\ ftp = NoSession
    /\ sess = [s \in Sessions |-> NoSessionObject]
    /\ NoRestore
    /\ NoPoll
    /\ NoTransfer
    /\ NoStore
    /\ launched = <<>>
    /\ gui = [pc |-> "read", ret |-> "read", config |-> NoConfig, value |-> FALSE,
              init_check |-> FALSE, events |-> 0]

NextEditor ==
    \/ Advance
    \/ GuiStep
    \/ EditorStep
    \/ \E l \in Loops : LoopStep(l)

SpecEditor == InitEditor /\ [][NextEditor]_vars

(* ------- config.json while it is being rewritten (SpecCrash) ---------- *)
\* Util.json_dump, first half: open(filename, "w") truncates config.json
GuiSaveOpen ==
    /\ gui.pc = "save"
    /\ gui' = [gui EXCEPT !.pc = "writing"]
    /\ UNCHANGED <<restoreVars, treeVars, storeVars, pollVars, now, envVars, cfg, schedVars, loop, job, ftpVars, launched>>

\* Util.json_dump, second half: json.dump(data, file) and the close of the
\* file put the new text into config.json
GuiSaveDump ==
    /\ gui.pc = "writing"
    /\ cfg' = [gui.config EXCEPT !.auto_backup = gui.value]
    /\ gui' = [gui EXCEPT !.pc = gui.ret, !.ret = "read", !.config = NoConfig, !.value = FALSE]
    /\ UNCHANGED <<restoreVars, treeVars, storeVars, pollVars, now, envVars, schedVars, loop, job, ftpVars, launched>>

\* Scheduler.run: config = Util.get_config() while config.json is empty:
\* json.load raises JSONDecodeError; run() catches nothing, the exception
\* ends the thread where it stands
LoopReadRaises(l) ==
    /\ loop[l].pc = "read"
    /\ gui.pc = "writing"
    /\ loop' = [loop EXCEPT ![l] = [IdleLoop EXCEPT !.pc = "exit"]]
    /\ UNCHANGED <<restoreVars, treeVars, storeVars, pollVars, now, envVars, cfg, schedVars, job, ftpVars, launched, gui>>

\* the file holds a config whenever nobody is between the two halves
ConfigReadable == gui.pc # "writing"

\* the main window comes up with auto-backup on
InitCrash == InitEditor

NextCrash ==
    \/ Advance
    \/ GuiEvent
    \/ GuiTimeout
    \/ GuiInitCheck
    \/ Scheduler_start
    \/ Scheduler_stop
    \/ GuiGetConfig
    \/ GuiSaveOpen
    \/ GuiSaveDump
    \/ \E l \in Loops : LoopInit(l)
    \/ \E l \in Loops : LoopTest(l)
    \/ \E l \in Loops : LoopMark(l)
    \/ \E l \in Loops : LoopUnmark(l)
    \/ ConfigReadable /\ \E l \in Loops : LoopRead(l)
    \/ \E l \in Loops : LoopReadRaises(l)
    \/ \E l \in Loops : LoopSave(l)
    \/ \E l \in Loops : LoopSpawn(l)

SpecCrash == InitCrash /\ [][NextCrash]_vars

(* ----------------- Util.BackupRestorer.run (one thread) ---------------- *)
\* everything outside the restore, the server and the ftp handle
restVars == <<now, envVars, cfg, schedVars, loop, launched, pollVars, treeVars, storeVars>>

\* DetailsWindow.event_loop, "__RESTORE__" confirmed:
\* restorer = Util.BackupRestorer(self.backup); Thread(restorer.run).start();
\* RestoreWindow(restorer).show() -- the GUI thread stays in the poll loop of
\* the modal window.  The run observes one restore.
DetailsRestore ==
    /\ gui.pc = "details"
    /\ restorer.pc = "none"
    /\ restorer' = [restorer EXCEPT !.pc = "begin"]
    /\ rwin' = [rwin EXCEPT !.pc = "poll"]
    /\ gui' = [gui EXCEPT !.pc = "restore"]
    /\ UNCHANGED <<restVars, job, ftpVars, server, requests, uploaded>>

\* self.action = "__SERVER_STOP__"
RBegin ==
    /\ restorer.pc = "begin"
    /\ restorer' = [restorer EXCEPT !.pc = "stop", !.action = "__SERVER_STOP__"]
    /\ UNCHANGED <<restVars, job, ftpVars, gui, server, requests, uploaded, rwin>>

\* variant: the request returns when the server has carried out the command
send_request_AndWait(endpoint) ==
    /\ requests' = Append(requests, endpoint)
    /\ server' = [is_running |-> (endpoint \in {"start_async", "restart_async"}),
                  pending |-> "none"]

\* Server.stop / Server.start: send_request(endpoint); the endpoints are
\* asynchronous, the server acts on the command later
send_request(endpoint) ==
    /\ requests' = Append(requests, endpoint)
    /\ server' = [server EXCEPT !.pending = endpoint]

\* server.stop()
RStop ==
    /\ restorer.pc = "stop"
    /\ send_request("stop_async")
    /\ restorer' = [restorer EXCEPT !.pc = "waitstop"]
    /\ UNCHANGED <<restVars, job, ftpVars, gui, uploaded, rwin>>

\* The documents the status endpoint and the JSON feed can answer with:
\* "ok" carries result and is_running, "nofield" carries result but no
\* is_running, "invalid" carries no result.
StatusDocs == {"ok", "nofield", "invalid"}

\* Server.status followed by ObjectifiedDict.__getattr__("is_running"):
\* the value read from document d, "None" for a missing key; "raise" when
\* Server.status raises InvalidResponse
status_is_running(d) ==
    CASE d = "invalid" -> "raise"
      [] d = "nofield" -> "None"
      [] OTHER -> IF server.is_running THEN "True" ELSE "False"

\* Python's truth value of what is_running evaluated to
truthy(v) == v = "True"

\* while True: if not server.status.is_running: break
\* InvalidResponse derives from BaseException and is caught nowhere: it ends
\* the thread.
RPollStop ==
    /\ restorer.pc = "waitstop"
    /\ \E d \in StatusDocs :
          LET v == status_is_running(d)
          IN  restorer' = IF v = "raise" THEN Ended(restorer, "dead")
                          ELSE IF ~truthy(v)
                               THEN [restorer EXCEPT !.pc = "settle", !.is_running = v]
                               ELSE [restorer EXCEPT !.is_running = v]
    /\ UNCHANGED <<restVars, job, ftpVars, gui, server, requests, uploaded, rwin>>

\* a restorer that goes from the wait for the stop straight to the start
RStageUpload_SkipsUpload ==
    /\ restorer.pc = "settle"
    /\ restorer' = [restorer EXCEPT !.pc = "start", !.action = "__SERVER_START__"]
    /\ UNCHANGED <<restVars, job, ftpVars, gui, server, requests, uploaded, rwin>>

\* time.sleep(5); self.action = "__UPLOAD__"
RStageUpload ==
    /\ restorer.pc = "settle"
    /\ restorer' = [restorer EXCEPT !.pc = "connect", !.action = "__UPLOAD__"]
    /\ UNCHANGED <<restVars, job, ftpVars, gui, server, requests, uploaded, rwin>>

\* upload_backup: ftp = FTPManager(FTP_HOST, FTP_USER, FTP_PASSWORD)
RConnect ==
    /\ restorer.pc = "connect"
    /\ sess' = [sess EXCEPT ![RestoreSession] = NewSession]
    /\ ftp' = RestoreSession
    /\ restorer' = [restorer EXCEPT !.pc = "call"]
    /\ UNCHANGED <<restVars, job, gui, server, requests, uploaded, rwin>>

\* ftp.upload_folder(...): the global is read again; on None the call raises
\* AttributeError; otherwise self.up_stream = self._IOStream(get_folder_size(...))
RCall ==
    /\ restorer.pc = "call"
    /\ IF ftp = NoSession
       THEN /\ restorer' = Ended(restorer, "dead")
            /\ sess' = sess
       ELSE /\ restorer' = [restorer EXCEPT !.pc = "xfer", !.target = ftp, !.sent = 0]
            /\ sess' = [sess EXCEPT ![ftp].up_stream = IOStream(NFiles)]
    /\ UNCHANGED <<restVars, job, ftp, gui, server, requests, uploaded, rwin>>

\* self.upload(path, rem_path, callback=lambda data: self.up_stream.add_size(len(data)))
\* on a session that has been closed the upload raises
RUploadFile ==
    /\ restorer.pc = "xfer"
    /\ restorer.sent < NFiles
    /\ IF sess[restorer.target].open
       THEN /\ restorer' = [restorer EXCEPT !.sent = @ + 1]
            /\ sess' = [sess EXCEPT ![restorer.target].up_stream.cum_size = @ + 1]
            /\ uploaded' = uploaded + 1
       ELSE /\ restorer' = Ended(restorer, "dead")
            /\ UNCHANGED <<sess, uploaded>>
    /\ UNCHANGED <<restVars, job, ftp, gui, server, requests, rwin>>

\* an upload_backup that swallows the exception and returns
RUploadFail_Swallowed ==
    /\ restorer.pc = "xfer"
    /\ restorer.sent < NFiles
    /\ restorer' = [restorer EXCEPT !.pc = "uploaded", !.target = NoSession, !.sent = 0]
    /\ UNCHANGED <<restVars, job, ftpVars, gui, server, requests, uploaded, rwin>>

\* the connection drops during the upload: the exception ends the thread
RUploadFail ==
    /\ restorer.pc = "xfer"
    /\ restorer.sent < NFiles
    /\ restorer' = Ended(restorer, "dead")
    /\ UNCHANGED <<restVars, job, ftpVars, gui, server, requests, uploaded, rwin>>

\* upload_folder returns; ftp.close(): the global is read again
RClose ==
    /\ restorer.pc = "xfer"
    /\ restorer.sent = NFiles
    /\ IF ftp = NoSession
       THEN /\ restorer' = Ended(restorer, "dead")
            /\ sess' = sess
       ELSE /\ restorer' = [restorer EXCEPT !.pc = "clear", !.target = NoSession, !.sent = 0]
            /\ sess' = [sess EXCEPT ![ftp].open = FALSE]
    /\ UNCHANGED <<restVars, job, ftp, gui, server, requests, uploaded, rwin>>

\* ftp = None
RClear ==
    /\ restorer.pc = "clear"
    /\ ftp' = NoSession
    /\ restorer' = [restorer EXCEPT !.pc = "uploaded"]
    /\ UNCHANGED <<restVars, job, sess, gui, server, requests, uploaded, rwin>>

\* self.action = "__SERVER_START__"
RStageStart ==
    /\ restorer.pc = "uploaded"
    /\ restorer' = [restorer EXCEPT !.pc = "start", !.action = "__SERVER_START__"]
    /\ UNCHANGED <<restVars, job, ftpVars, gui, server, requests, uploaded, rwin>>

\* server.start()
RStart ==
    /\ restorer.pc = "start"
    /\ send_request("start_async")
    /\ restorer' = [restorer EXCEPT !.pc = "waitstart"]
    /\ UNCHANGED <<restVars, job, ftpVars, gui, uploaded, rwin>>

\* while True: if server.status.is_running: break
RPollStart ==
    /\ restorer.pc = "waitstart"
    /\ \E d \in StatusDocs :
          LET v == status_is_running(d)
          IN  restorer' = IF v = "raise" THEN Ended(restorer, "dead")
                          ELSE IF truthy(v)
                               THEN [restorer EXCEPT !.pc = "started", !.is_running = v]
                               ELSE [restorer EXCEPT !.is_running = v]
    /\ UNCHANGED <<restVars, job, ftpVars, gui, server, requests, uploaded, rwin>>

\* self.action = "__EXIT__"; run() returns
RStageExit ==
    /\ restorer.pc = "started"
    /\ restorer' = Ended([restorer EXCEPT !.action = "__EXIT__"], "done")
    /\ UNCHANGED <<restVars, job, ftpVars, gui, server, requests, uploaded, rwin>>

RStep ==
    \/ RBegin
    \/ RStop
    \/ RPollStop
    \/ RStageUpload
    \/ RConnect
    \/ RCall
    \/ RUploadFile
    \/ RUploadFail
    \/ RClose
    \/ RClear
    \/ RStageStart
    \/ RStart
    \/ RPollStart
    \/ RStageExit

(* --------------------------- the remote server ------------------------- *)
\* the server carries out the command it was sent last
ServerActs ==
    /\ server.pending # "none"
    /\ server' = [is_running |-> (server.pending \in {"start_async", "restart_async"}),
                  pending |-> "none"]
    /\ UNCHANGED <<restVars, job, ftpVars, gui, restorer, requests, uploaded, rwin>>

(* ------------------- RestoreWindow.event_loop (GUI thread) ------------- *)
\* the text RestoreWindow shows for a stage
StatusText(action) ==
    CASE action = "__SERVER_STOP__" -> "Stopping server..."
      [] action = "__UPLOAD__" -> "Uploading files..."
      [] action = "__SERVER_START__" -> "Starting server..."
      [] OTHER -> rwin.status

\* window.read(timeout=50); if self.restorer.action == "__EXIT__": break, then
\* self.window.close() and show() returns to the details window; otherwise
\* the status text follows the stage, and during the upload
\* "if ftp is not None" is evaluated
WinPoll ==
    /\ rwin.pc = "poll"
    /\ IF restorer.action = "__EXIT__"
       THEN /\ rwin' = [rwin EXCEPT !.pc = "closed"]
            /\ gui' = [gui EXCEPT !.pc = "details"]
       ELSE /\ rwin' = [rwin EXCEPT
                           !.status = StatusText(restorer.action),
                           !.pc = IF restorer.action = "__UPLOAD__" /\ ftp # NoSession
                                  THEN "progress" ELSE "poll"]
            /\ gui' = gui
    /\ UNCHANGED <<restVars, job, ftpVars, restorer, server, requests, uploaded>>

\* if hasattr(ftp, "up_stream"):
\*     self.window["__PROGRESS__"].update((ftp.up_stream.cum_size/ftp.up_stream.total_size) * 100)
\* hasattr is False on None and True on every FTPManager; on an FTPManager
\* whose up_stream is still None the expression raises AttributeError in the
\* GUI thread.  Nothing catches it: the process exits and takes its daemon
\* threads with it.
WinProgress ==
    /\ rwin.pc = "progress"
    /\ IF ftp = NoSession
       THEN /\ rwin' = [rwin EXCEPT !.pc = "poll"]
            /\ UNCHANGED <<gui, restorer, job>>
       ELSE IF sess[ftp].up_stream = NoStream
       THEN /\ rwin' = [rwin EXCEPT !.pc = "crashed"]
            /\ gui' = [gui EXCEPT !.pc = "exit"]
            /\ restorer' = IF restorer.pc \in {"none", "done", "dead"}
                           THEN restorer ELSE Ended(restorer, "killed")
            /\ job' = [j \in Jobs |-> IF JobAlive(j) THEN [NoJob EXCEPT !.pc = "dead"] ELSE job[j]]
       ELSE /\ rwin' = [rwin EXCEPT
                           !.pc = "poll",
                           !.progress = (sess[ftp].up_stream.cum_size * 100)
                                           \div sess[ftp].up_stream.total_size]
            /\ UNCHANGED <<gui, restorer, job>>
    /\ UNCHANGED <<restVars, ftpVars, server, requests, uploaded>>

WinStep ==
    \/ WinPoll
    \/ WinProgress

(* ------- a restore, with a backup job beside it (SpecRestore) ---------- *)
\* the user has the details window of a backup open and the server is
\* running; a control loop may just have started a backup job
InitRestore ==
    /\ tz \in {z \in Zones : z.name = "UTC"}
    /\ now = ReleaseEpoch
    /\ armedAt = now
    /\ deadline = now
    /\ cfg = DefaultConfig(MIN_AUTO_BACKUP_INTERVAL)
    /\ stop_flag = FALSE
    /\ running = FALSE
    /\ thread_running = FALSE
    /\ loop = [l \in Loops |-> IdleLoop]
    /\ job \in {[j \in Jobs |-> IF j = 1 THEN [NoJob EXCEPT !.pc = p] ELSE NoJob] :
                   p \in {"none", "connect"}}
    /\ ftp = NoSession
    /\ sess = [s \in Sessions |-> NoSessionObject]
    /\ launched = <<>>
    /\ gui = [pc |-> "details", ret |-> "read", config |-> NoConfig, value |-> FALSE,
              init_check |-> TRUE, events |-> 0]
    /\ NoRestore
    /\ NoPoll
    /\ NoTransfer
    /\ NoStore

NextRestore ==
    \/ DetailsRestore
    \/ RStep
    \/ ServerActs
    \/ WinStep
    \/ \E j \in Jobs : JobStep(j)

SpecRestore == InitRestore /\ [][NextRestore]_vars

(* ---- a restore and a control loop about to launch (SpecOverlap) ------- *)
\* the user has the details window of a backup open and the server is
\* running; the control loop has found a run due, has saved the config and
\* is about to start the job thread
InitOverlap ==
    /\ tz \in {z \in Zones : z.name = "UTC"}
    /\ now = ReleaseEpoch
    /\ armedAt = now
    /\ deadline = now
    /\ cfg = [auto_backup |-> TRUE, interval |-> MIN_AUTO_BACKUP_INTERVAL, last_run |-> now]
    /\ stop_flag = FALSE
    /\ running = TRUE
    /\ thread_running = FALSE
    /\ loop = [l \in Loops |-> IF l = 1 THEN [IdleLoop EXCEPT !.pc = "spawn"] ELSE IdleLoop]
    /\ job = [j \in Jobs |-> NoJob]
    /\ ftp = NoSession
    /\ sess = [s \in Sessions |-> NoSessionObject]
    /\ launched = <<>>
    /\ gui = [pc |-> "details", ret |-> "read", config |-> NoConfig, value |-> FALSE,
              init_check |-> TRUE, events |-> 0]
    /\ NoRestore
    /\ NoPoll
    /\ NoTransfer
    /\ NoStore

NextOverlap ==
    \/ DetailsRestore
    \/ RStep
    \/ ServerActs
    \/ WinStep
    \/ \E l \in Loops : LoopSpawn(l)
    \/ \E j \in Jobs : JobStep(j)

SpecOverlap == InitOverlap /\ [][NextOverlap]_vars

(* ---------------- update_status (the status poller thread) ------------- *)
\* dict.get(key): the value, None for a missing key
get(d, key) == IF key \in DOMAIN d THEN d[key] ELSE "None"

\* a merge in which the left document wins on a key of both
Merge_FirstWins(a, b) == [k \in DOMAIN a \cup DOMAIN b |-> IF k \in DOMAIN a THEN a[k] ELSE b[k]]

\* a | b on dicts: the keys of both, the value of b where both have the key
Merge(a, b) == [k \in DOMAIN a \cup DOMAIN b |-> IF k \in DOMAIN b THEN b[k] ELSE a[k]]

\* how a document spells the state of the server
Flag(b) == IF b THEN "True" ELSE "False"

\* the JSON documents the status endpoint can answer with: with a true
\* result, with a false one and without one, with and without is_running
StatusResponses ==
    { [result |-> "True", is_running |-> Flag(server.is_running)],
      [result |-> "True"],
      [result |-> "False", is_running |-> Flag(server.is_running)],
      [is_running |-> Flag(server.is_running)] }

\* the JSON documents the feed can answer with; the feed may carry a key of
\* the status document, with a value of its own
FeedResponses ==
    { [hostname |-> "SE"],
      [hostname |-> "SE", is_running |-> "False"] }

\* a poller thread that an exception has ended
PollerDead(error) == [pc |-> "dead", status_ |-> EmptyDict, feed |-> EmptyDict, error |-> error]

\* time.sleep(1) returns; the next iteration calls server.status
PollWake ==
    /\ poller.pc = "sleep"
    /\ poller' = [poller EXCEPT !.pc = "status"]
    /\ UNCHANGED <<restoreVars, treeVars, storeVars, status, now, envVars, cfg, schedVars, loop, job, ftpVars, launched, gui>>

\* a Server.status that hands out the status document before the feed is read
PollStatus_PublishesEarly ==
    /\ poller.pc = "status"
    /\ \/ poller' = PollerDead("ConnectionError") /\ status' = status
       \/ \E d \in StatusResponses :
             /\ status' = d
             /\ poller' = IF ~truthy(get(d, "result"))
                          THEN PollerDead("InvalidResponse")
                          ELSE [poller EXCEPT !.pc = "feed", !.status_ = d]
    /\ UNCHANGED <<restoreVars, treeVars, storeVars, now, envVars, cfg, schedVars, loop, job, ftpVars, launched, gui>>

\* Server.status: status_ = self.send_request(self.ENDPOINT_STATUS).json()
\* if not status_.get("result"): raise InvalidResponse(...)
\* The request can fail (connection error, a body that is no JSON).  No
\* exception is caught in update_status: it ends the thread.
PollStatus ==
    /\ poller.pc = "status"
    /\ \/ poller' = PollerDead("ConnectionError")
       \/ \E d \in StatusResponses :
             poller' = IF ~truthy(get(d, "result"))
                       THEN PollerDead("InvalidResponse")
                       ELSE [poller EXCEPT !.pc = "feed", !.status_ = d]
    /\ UNCHANGED <<restoreVars, treeVars, storeVars, status, now, envVars, cfg, schedVars, loop, job, ftpVars, launched, gui>>

\* return Util.ObjectifiedDict(status_ | self._json_feed), assigned to the
\* global by update_status: status = server.status; then time.sleep(1).
\* poller.feed keeps the document that self._json_feed returned.
PollFeed ==
    /\ poller.pc = "feed"
    /\ \/ /\ poller' = PollerDead("ConnectionError")
          /\ status' = status
       \/ \E f \in FeedResponses :
             /\ status' = Merge(poller.status_, f)
             /\ poller' = [poller EXCEPT !.pc = "sleep", !.status_ = EmptyDict, !.feed = f]
    /\ UNCHANGED <<restoreVars, treeVars, storeVars, now, envVars, cfg, schedVars, loop, job, ftpVars, launched, gui>>

PollStep ==
    \/ PollWake
    \/ PollStatus
    \/ PollFeed

\* Server.start, Server.stop, Server.restart: the endpoint each one names
ServerMethods == {"start", "stop", "restart"}
EndpointOf(method) ==
    CASE method = "start" -> "start_async"
      [] method = "stop" -> "stop_async"
      [] method = "restart" -> "restart_async"

\* MainWindow.event_loop, "__START__" / "__STOP__" / "__RESTART__":
\* server.start(), server.stop(), server.restart()
GuiCommand ==
    /\ gui.pc = "read"
    /\ Len(requests) < MaxRequests
    /\ \E method \in ServerMethods : send_request(EndpointOf(method))
    /\ UNCHANGED <<pollVars, treeVars, storeVars, restorer, uploaded, rwin, now, envVars, cfg, schedVars, loop, job, ftpVars, launched, gui>>

(* --------- the poller and the lifecycle commands (SpecPoll) ------------ *)
\* the main window is up, the server runs or is stopped, the poller thread
\* has just been started
InitPoll ==
    /\ tz \in {z \in Zones : z.name = "UTC"}
    /\ now = ReleaseEpoch
    /\ armedAt = now
    /\ deadline = now
    /\ cfg = DefaultConfig(MIN_AUTO_BACKUP_INTERVAL)
    /\ stop_flag = FALSE
    /\ running = FALSE
    /\ thread_running = FALSE
    /\ loop = [l \in Loops |-> IdleLoop]
    /\ job = [j \in Jobs |-> NoJob]
    /\ ftp = NoSession
    /\ sess = [s \in Sessions |-> NoSessionObject]
    /\ launched = <<>>
    /\ gui = [pc |-> "read", ret |-> "read", config |-> NoConfig, value |-> FALSE,
              init_check |-> TRUE, events |-> 0]
    /\ restorer = NoRestorer
    /\ server \in {[is_running |-> b, pending |-> "none"] : b \in BOOLEAN}
    /\ requests = <<>>
    /\ uploaded = 0
    /\ rwin = [pc |-> "none", status |-> "", progress |-> 0]
    /\ NoPoll
    /\ NoTransfer
    /\ NoStore

NextPoll ==
    \/ PollStep
    \/ GuiCommand
    \/ ServerActs

SpecPoll == InitPoll /\ [][NextPoll]_vars

(* ------------- FTPManager: folder_size, download, upload --------------- *)
\* val in item[0]: val is a substring of the string
Contains(t, val) ==
    \E i \in 0..(Len(t) - Len(val)) : SubSeq(t, i + 1, i + Len(val)) = val

\* item[0] of walk("."): "." for the top, "./a", "./a/b" below it
RECURSIVE WalkedPath(_)
WalkedPath(p) ==
    IF p = <<>> THEN <<".">>
    ELSE WalkedPath(Parent(p)) \o <<"/">> \o p[Len(p)]

\* variant: an entry excludes a directory when its own name contains it
Blacklisted_OwnName(p, B) == p # <<>> /\ \E val \in B : Contains(p[Len(p)], val)

\* variant: an entry excludes the directories that have it as a name
Blacklisted_ByName(p, B) == \E val \in B : \E i \in 1..Len(p) : p[i] = val

\* any(val in item[0] for val in (blacklist or []))
Blacklisted(p, B) == \E val \in B : Contains(WalkedPath(p), val)

\* item[1] and item[2] of the walk's item for directory d
Children(T, d) == {p \in T.dirs : p # <<>> /\ Parent(p) = d}
FilesIn(T, d) == {f \in T.files : f.dir = d}

\* a directory listing, in the order the listing returns it
RECURSIVE Listing(_)
Listing(S) ==
    IF S = {} THEN <<>>
    ELSE LET x == CHOOSE x \in S : TRUE IN <<x>> \o Listing(S \ {x})

\* walk(top): top down, a directory before the directories below it
RECURSIVE walk(_, _), walkAll(_, _)
walk(T, top) == <<top>> \o walkAll(T, Listing(Children(T, top)))
walkAll(T, ds) ==
    IF ds = <<>> THEN <<>> ELSE walk(T, Head(ds)) \o walkAll(T, Tail(ds))

\* the inner loop of folder_size: size += getsize(join(item[0], file))
RECURSIVE SizeOfFiles(_)
SizeOfFiles(fs) ==
    IF fs = <<>> THEN 0 ELSE Len(Head(fs).data) + SizeOfFiles(Tail(fs))

\* the outer loop of folder_size over the items of the walk
RECURSIVE SizeOfItems(_, _, _)
SizeOfItems(T, B, items) ==
    IF items = <<>> THEN 0
    ELSE (IF ~Blacklisted(Head(items), B)
          THEN SizeOfFiles(Listing(FilesIn(T, Head(items))))
          ELSE 0) + SizeOfItems(T, B, Tail(items))

\* variant: the size of the whole tree, whatever the blacklist
folder_size_WholeTree(T, B) == SizeOfItems(T, {}, walk(T, <<>>))

folder_size(T, B) == SizeOfItems(T, B, walk(T, <<>>))

\* os.mkdir / FTPHost.mkdir inside try/except: creates the directory when
\* it is absent and its parent exists; any error is swallowed
mkdir(T, p) ==
    IF p \notin T.dirs /\ (p = <<>> \/ Parent(p) \in T.dirs)
    THEN [T EXCEPT !.dirs = @ \cup {p}]
    ELSE T

\* download() / upload() of one file: writes the target, replacing a file
\* of that name; fails when the target's directory does not exist
CanStore(T, f) == f.dir \in T.dirs

\* variant: a file that is already at the target is not written again
Store_KeepsExisting(T, f) ==
    IF \E g \in T.files : g.dir = f.dir /\ g.name = f.name THEN T
    ELSE [T EXCEPT !.files = @ \cup {f}]

Store(T, f) ==
    [T EXCEPT !.files = {g \in @ : ~(g.dir = f.dir /\ g.name = f.name)} \cup {f}]

\* st: [ok, tree], the result so far; a failed transfer raises and ends
\* the operation with the tree as it is
RECURSIVE StoreAll(_, _)
StoreAll(st, fs) ==
    IF fs = <<>> \/ ~st.ok THEN st
    ELSE IF CanStore(st.tree, Head(fs))
         THEN StoreAll([st EXCEPT !.tree = Store(@, Head(fs))], Tail(fs))
         ELSE [st EXCEPT !.ok = FALSE]

\* the loop of download_folder over the items of the walk
RECURSIVE DownloadItems(_, _, _, _)
DownloadItems(T, B, items, st) ==
    IF items = <<>> \/ ~st.ok THEN st
    ELSE IF ~Blacklisted(Head(items), B)
         THEN DownloadItems(T, B, Tail(items),
                  StoreAll([st EXCEPT !.tree = mkdir(@, Head(items))],
                           Listing(FilesIn(T, Head(items)))))
         ELSE DownloadItems(T, B, Tail(items), st)

\* variant: everything is downloaded, whatever the blacklist
download_folder_NoBlacklist(T, L, B) ==
    DownloadItems(T, {}, walk(T, <<>>), [ok |-> TRUE, tree |-> mkdir(L, <<>>)])

\* download_folder(remote_folder, local_folder, blacklist) from remote tree
\* T into local tree L
download_folder(T, L, B) ==
    DownloadItems(T, B, walk(T, <<>>), [ok |-> TRUE, tree |-> mkdir(L, <<>>)])

\* upload_folder(local_folder, remote_folder) for the directory d of the
\* local tree L: the files of d, then every directory of d with all below
RECURSIVE upload_folder(_, _, _), UploadDirs(_, _, _)
upload_folder(L, d, st) ==
    UploadDirs(L, Listing(Children(L, d)), StoreAll(st, Listing(FilesIn(L, d))))
UploadDirs(L, ds, st) ==
    IF ds = <<>> \/ ~st.ok THEN st
    ELSE UploadDirs(L, Tail(ds),
             upload_folder(L, Head(ds), [st EXCEPT !.tree = mkdir(@, Head(ds))]))

(* -------- size, download and upload of one tree (SpecTransfer) --------- *)
\* what the remote directory can hold when a backup is uploaded into it, if
\* not what it held at the download: nothing, or other directories and files
OtherRemotes ==
    { EmptyTree,
      [dirs |-> {<<>>, <<<<"a">>>>},
       files |-> {[dir |-> <<>>, name |-> <<"a", "f">>, data |-> <<1>>],
                  [dir |-> <<<<"a">>>>, name |-> <<"f">>, data |-> <<1, 2>>]}] }

\* download_folder: self.folder_size(remote_folder, blacklist)
FolderSizeCall ==
    /\ op.pc = "start"
    /\ op' = [op EXCEPT !.pc = "sized", !.size = folder_size(remote, blacklist),
                         !.down_stream = IOStream(folder_size(remote, blacklist))]
    /\ UNCHANGED <<remote, local, blacklist>>

\* download_folder: the mkdir of the local folder and the walk
DownloadCall ==
    /\ op.pc = "sized"
    /\ LET res == download_folder(remote, local, blacklist) IN
        /\ local' = res.tree
        /\ op' = [op EXCEPT !.pc = "downloaded", !.ok = res.ok,
                             !.existed = (local # NoTree), !.source = remote,
                             !.down_stream.cum_size =
                                 @ + SizeOfFiles(Listing(res.tree.files \ local.files))]
    /\ UNCHANGED <<remote, blacklist>>

\* between the backup and its restore the server's directory changes
RemoteChanges ==
    /\ op.pc = "downloaded"
    /\ op.ok
    /\ \E T \in OtherRemotes :
        /\ T # remote
        /\ remote' = T
    /\ op' = [op EXCEPT !.pc = "changed"]
    /\ UNCHANGED <<local, blacklist>>

\* variant: the upload replaces whatever the remote directory held
UploadCall_Replaces ==
    /\ op.pc \in {"downloaded", "changed"}
    /\ op.ok
    /\ LET res == upload_folder(local, <<>>, [ok |-> TRUE, tree |-> EmptyTree]) IN
        /\ remote' = res.tree
        /\ op' = [op EXCEPT !.pc = "uploaded", !.ok = res.ok, !.target = remote]
    /\ UNCHANGED <<local, blacklist>>

\* Util.upload_backup: ftp.upload_folder(backup, FTP_DIR)
UploadCall ==
    /\ op.pc \in {"downloaded", "changed"}
    /\ op.ok
    /\ LET res == upload_folder(local, <<>>, [ok |-> TRUE, tree |-> remote]) IN
        /\ remote' = res.tree
        /\ op' = [op EXCEPT !.pc = "uploaded", !.ok = res.ok, !.target = remote]
    /\ UNCHANGED <<local, blacklist>>

TransferStep ==
    /\ FolderSizeCall \/ DownloadCall \/ RemoteChanges \/ UploadCall
    /\ UNCHANGED <<now, envVars, cfg, schedVars, loop, launched, gui, job, ftpVars,
                   restoreVars, pollVars, storeVars>>

InitTransfer ==
    /\ tz \in {z \in Zones : z.name = "UTC"}
    /\ now = ReleaseEpoch
    /\ armedAt = now
    /\ deadline = now
    /\ cfg = DefaultConfig(MIN_AUTO_BACKUP_INTERVAL)
    /\ stop_flag = FALSE
    /\ running = FALSE
    /\ thread_running = FALSE
    /\ loop = [l \in Loops |-> IdleLoop]
    /\ job = [j \in Jobs |-> NoJob]
    /\ ftp = NoSession
    /\ sess = [s \in Sessions |-> NoSessionObject]
    /\ launched = <<>>
    /\ gui = [pc |-> "read", ret |-> "read", config |-> NoConfig, value |-> FALSE,
              init_check |-> TRUE, events |-> 0]
    /\ NoRestore
    /\ NoPoll
    /\ remote \in Trees(MaxDirs, MaxFiles)
    /\ blacklist \in Blacklists
    /\ local \in {NoTree, EmptyTree}
    /\ op = [NoOp EXCEPT !.pc = "start"]
    /\ NoStore

NextTransfer == TransferStep

SpecTransfer == InitTransfer /\ [][NextTransfer]_vars

(* ------- folder_size, one request at a time (SpecSize) ----------------- *)
\* folder_size: self.chdir(self.def_wd)
FsChdirRoot ==
    /\ op.pc = "fs_call"
    /\ op' = [op EXCEPT !.pc = "fs_root", !.cwd = "def_wd", !.size = 0]
    /\ UNCHANGED <<remote, local, blacklist>>

\* folder_size: self.chdir(folder)
FsChdirFolder ==
    /\ op.pc = "fs_root"
    /\ op' = [op EXCEPT !.pc = "fs_in", !.cwd = "folder"]
    /\ UNCHANGED <<remote, local, blacklist>>

\* folder_size: the loop over self.walk("."), size += getsize(...)
FsWalk ==
    /\ op.pc = "fs_in"
    /\ op' = [op EXCEPT !.pc = "fs_walked", !.size = folder_size(remote, blacklist),
                         !.source = remote]
    /\ UNCHANGED <<remote, local, blacklist>>

\* a listing or a getsize fails: the exception leaves folder_size where the
\* session stands
FsFail ==
    /\ op.pc = "fs_in"
    /\ op' = [op EXCEPT !.pc = "fs_failed"]
    /\ UNCHANGED <<remote, local, blacklist>>

\* a folder_size that returns without going back to the default root
FsReturn_StaysInFolder ==
    /\ op.pc = "fs_walked"
    /\ op' = [op EXCEPT !.pc = "fs_ret", !.runs = @ + 1]
    /\ UNCHANGED <<remote, local, blacklist>>

\* folder_size: self.chdir(self.def_wd); return size
FsReturn ==
    /\ op.pc = "fs_walked"
    /\ op' = [op EXCEPT !.pc = "fs_ret", !.cwd = "def_wd", !.runs = @ + 1]
    /\ UNCHANGED <<remote, local, blacklist>>

\* folder_size is called again on the session, after a return or a failure
FsAgain ==
    /\ op.pc \in {"fs_ret", "fs_failed"}
    /\ op.runs < MaxRuns
    /\ op' = [op EXCEPT !.pc = "fs_call",
                         !.prev = IF op.pc = "fs_ret" THEN op.size ELSE @]
    /\ UNCHANGED <<remote, local, blacklist>>

\* between two calls the server's directory changes
FsRemoteChanges ==
    /\ op.pc = "fs_ret"
    /\ op.source = remote
    /\ \E T \in OtherRemotes :
        /\ T # remote
        /\ remote' = T
    /\ UNCHANGED <<op, local, blacklist>>

SizeStep ==
    /\ \/ FsChdirRoot
       \/ FsChdirFolder
       \/ FsWalk
       \/ FsFail
       \/ FsReturn
       \/ FsAgain
       \/ FsRemoteChanges
    /\ UNCHANGED <<now, envVars, cfg, schedVars, loop, launched, gui, job, ftpVars,
                   restoreVars, pollVars, storeVars>>

\* a session whose trackers an earlier download has set, a remote tree, a
\* blacklist, and a call of folder_size
InitSize ==
    /\ tz \in {z \in Zones : z.name = "UTC"}
    /\ now = ReleaseEpoch
    /\ armedAt = now
    /\ deadline = now
    /\ cfg = DefaultConfig(MIN_AUTO_BACKUP_INTERVAL)
    /\ stop_flag = FALSE
    /\ running = FALSE
    /\ thread_running = FALSE
    /\ loop = [l \in Loops |-> IdleLoop]
    /\ job = [j \in Jobs |-> NoJob]
    /\ ftp = NoSession
    /\ sess = [s \in Sessions |-> NoSessionObject]
    /\ launched = <<>>
    /\ gui = [pc |-> "read", ret |-> "read", config |-> NoConfig, value |-> FALSE,
              init_check |-> TRUE, events |-> 0]
    /\ NoRestore
    /\ NoPoll
    /\ remote \in Trees(MaxDirs, MaxFiles)
    /\ blacklist \in Blacklists
    /\ local = NoTree
    /\ op = [NoOp EXCEPT !.pc = "fs_call",
                         !.down_stream = [total_size |-> 3, cum_size |-> 1]]
    /\ NoStore

NextSize == SizeStep

SpecSize == InitSize /\ [][NextSize]_vars

(* ------- an upload, one request at a time (SpecProgress) --------------- *)
\* dirpath of os.walk(start_path): start_path and every directory below it
IsBelow(p, d) == Len(p) >= Len(d) /\ SubSeq(p, 1, Len(d)) = d

\* Util.get_folder_size(start_path) for the directory d of the local tree L
get_folder_size(L, d) == SizeOfFiles(Listing({f \in L.files : IsBelow(f.dir, d)}))

NoFile == [dir |-> <<>>, name |-> <<>>, data |-> <<>>]

\* what upload_folder does for the directory d of L, in order: the
\* assignment of self.up_stream, an upload per file, and per directory the
\* mkdir and the recursive call.  os.listdir returns the items in arbitrary
\* order: filesFirst tells whether it lists the files of a directory before
\* its subdirectories or after them.
RECURSIVE UploadEvents(_, _, _), UploadEventsOfDirs(_, _, _), UploadEventsOfFiles(_)
UploadEvents(L, d, filesFirst) ==
    <<[kind |-> "stream", dir |-> d, file |-> NoFile, total |-> get_folder_size(L, d)]>>
        \o (IF filesFirst
            THEN UploadEventsOfFiles(Listing(FilesIn(L, d)))
                     \o UploadEventsOfDirs(L, Listing(Children(L, d)), filesFirst)
            ELSE UploadEventsOfDirs(L, Listing(Children(L, d)), filesFirst)
                     \o UploadEventsOfFiles(Listing(FilesIn(L, d))))
UploadEventsOfFiles(fs) ==
    IF fs = <<>> THEN <<>>
    ELSE <<[kind |-> "file", dir |-> Head(fs).dir, file |-> Head(fs), total |-> 0]>>
             \o UploadEventsOfFiles(Tail(fs))
UploadEventsOfDirs(L, ds, filesFirst) ==
    IF ds = <<>> THEN <<>>
    ELSE <<[kind |-> "mkdir", dir |-> Head(ds), file |-> NoFile, total |-> 0]>>
             \o UploadEvents(L, Head(ds), filesFirst)
             \o UploadEventsOfDirs(L, Tail(ds), filesFirst)

\* Util.upload_backup: ftp = FTPManager(...); ftp.upload_folder(backup, FTP_DIR)
UploadBegin ==
    /\ op.pc = "downloaded"
    /\ op.ok
    /\ \E filesFirst \in BOOLEAN :
          op' = [op EXCEPT !.pc = "uploading", !.target = remote, !.up_stream = NoStream,
                           !.todo = UploadEvents(local, <<>>, filesFirst)]
    /\ UNCHANGED <<remote, local, blacklist>>

\* line 536: self.up_stream = self._IOStream(Util.get_folder_size(local_folder)),
\* in the first call and in every recursive call
UploadSetsStream ==
    /\ op.pc = "uploading"
    /\ op.todo # <<>>
    /\ Head(op.todo).kind = "stream"
    /\ op' = [op EXCEPT !.up_stream = IOStream(Head(op.todo).total), !.todo = Tail(@)]
    /\ UNCHANGED <<remote, local, blacklist>>

\* line 541: self.upload(path, rem_path, callback=lambda data:
\* self.up_stream.add_size(len(data))); the callback adds to the object that
\* self.up_stream names when the data is sent
UploadSendsFile ==
    /\ op.pc = "uploading"
    /\ op.todo # <<>>
    /\ Head(op.todo).kind = "file"
    /\ IF CanStore(remote, Head(op.todo).file)
       THEN /\ remote' = Store(remote, Head(op.todo).file)
            /\ op' = [op EXCEPT !.up_stream.cum_size = @ + Len(Head(op.todo).file.data),
                                 !.todo = Tail(@)]
       ELSE /\ op' = [op EXCEPT !.pc = "failed", !.ok = FALSE, !.todo = <<>>]
            /\ UNCHANGED remote
    /\ UNCHANGED <<local, blacklist>>

\* lines 543-546: self.mkdir(rem_path), FTPError swallowed
UploadMakesDir ==
    /\ op.pc = "uploading"
    /\ op.todo # <<>>
    /\ Head(op.todo).kind = "mkdir"
    /\ remote' = mkdir(remote, Head(op.todo).dir)
    /\ op' = [op EXCEPT !.todo = Tail(@)]
    /\ UNCHANGED <<local, blacklist>>

\* upload_folder returns to upload_backup
UploadEnd ==
    /\ op.pc = "uploading"
    /\ op.todo = <<>>
    /\ op' = [op EXCEPT !.pc = "uploaded"]
    /\ UNCHANGED <<remote, local, blacklist>>

ProgressStep ==
    /\ \/ FolderSizeCall
       \/ DownloadCall
       \/ UploadBegin
       \/ UploadSetsStream
       \/ UploadSendsFile
       \/ UploadMakesDir
       \/ UploadEnd
    /\ UNCHANGED <<now, envVars, cfg, schedVars, loop, launched, gui, job, ftpVars,
                   restoreVars, pollVars, storeVars>>

NextProgress == ProgressStep

SpecProgress == InitTransfer /\ [][NextProgress]_vars

(* --------------- the backup loader of start-up (SpecLoad) -------------- *)
\* A directory of BACKUPS_DIR: its name, and for each of its subdirectories,
\* in the order os.walk lists them, whether it holds a thumb.jpg that
\* Image.open can read.
StoreNames == {TimestampName(ReleaseEpoch), TimestampName(ReleaseEpoch + 1)} \cup OtherNames
StoreContents == {<<>>, <<TRUE>>, <<FALSE>>, <<FALSE, TRUE>>}

\* what BACKUPS_DIR can hold at start-up: at most max directories
Stores(max) ==
    {S \in SUBSET [path : StoreNames, dirs : StoreContents] :
        /\ Cardinality(S) <= max
        /\ \A d \in S : \A e \in S : d.path = e.path => d = e}

\* Backup(path_) followed by Image.open(backup_.thumbnail): the exception it
\* raises, or "ok".  self.name = next(os.walk(...))[1][0] comes first, then
\* float(self.path) and fromtimestamp, then the thumbnail below self.name
LoadOutcome(d) ==
    IF d.dirs = <<>> THEN "IndexError"
    ELSE IF d.path.kind # "timestamp" THEN "ValueError"
    ELSE IF ~d.dirs[1] THEN "FileNotFoundError"
    ELSE "ok"

\* variant: except OSError
Caught_OnlyOSError(e) == e = "FileNotFoundError"

\* except Exception as e
Caught(e) == e \in {"IndexError", "ValueError", "FileNotFoundError"}

\* one iteration of: for path_ in next(os.walk(BACKUPS_DIR))[1]
LoadBackup ==
    /\ loader.pc = "loading"
    /\ \E d \in store :
        /\ d.path \in loader.todo
        /\ IF LoadOutcome(d) = "ok"
           THEN /\ BACKUPS' = Append(BACKUPS, d.path)
                /\ loader' = [loader EXCEPT !.todo = @ \ {d.path}]
           ELSE /\ BACKUPS' = BACKUPS
                /\ loader' = IF Caught(LoadOutcome(d))
                              THEN [loader EXCEPT !.todo = @ \ {d.path}, !.errors = @ + 1]
                              ELSE [loader EXCEPT !.pc = "aborted"]
    /\ UNCHANGED store

\* print("[BACKUP_LOADER] Loaded ...")
LoadEnd ==
    /\ loader.pc = "loading"
    /\ loader.todo = {}
    /\ loader' = [loader EXCEPT !.pc = "done"]
    /\ UNCHANGED <<store, BACKUPS>>

LoadStep ==
    /\ LoadBackup \/ LoadEnd
    /\ UNCHANGED <<now, envVars, cfg, schedVars, loop, launched, gui, job, ftpVars,
                   restoreVars, pollVars, treeVars>>

InitLoad ==
    /\ tz \in {z \in Zones : z.name = "UTC"}
    /\ now = ReleaseEpoch + 2
    /\ armedAt = now
    /\ deadline = now
    /\ cfg = DefaultConfig(MIN_AUTO_BACKUP_INTERVAL)
    /\ stop_flag = FALSE
    /\ running = FALSE
    /\ thread_running = FALSE
    /\ loop = [l \in Loops |-> IdleLoop]
    /\ job = [j \in Jobs |-> NoJob]
    /\ ftp = NoSession
    /\ sess = [s \in Sessions |-> NoSessionObject]
    /\ launched = <<>>
    /\ gui = [pc |-> "read", ret |-> "read", config |-> NoConfig, value |-> FALSE,
              init_check |-> TRUE, events |-> 0]
    /\ NoRestore
    /\ NoPoll
    /\ NoTransfer
    /\ store \in Stores(MaxBackups)
    /\ BACKUPS = <<>>
    /\ loader = [pc |-> "loading", todo |-> {d.path : d \in store}, errors |-> 0]

NextLoad == LoadStep

SpecLoad == InitLoad /\ [][NextLoad]_vars

(* ------- the backup store while the program runs (SpecStore) ----------- *)
\* MainWindow.event_loop, "__DETAILS__<index>": DetailsWindow(BACKUPS[index]).show()
GuiDetails ==
    /\ gui.pc = "read"
    /\ BACKUPS # <<>>
    /\ gui' = [gui EXCEPT !.pc = "details"]
    /\ UNCHANGED <<restoreVars, treeVars, storeVars, pollVars, now, envVars, cfg, schedVars, loop, job, ftpVars, launched>>

\* DetailsWindow.event_loop, window closed or "__CLOSE__"
DetailsClose ==
    /\ gui.pc = "details"
    /\ gui' = [gui EXCEPT !.pc = "read"]
    /\ UNCHANGED <<restoreVars, treeVars, storeVars, pollVars, now, envVars, cfg, schedVars, loop, job, ftpVars, launched>>

\* the list without its i-th element
RemoveAt(q, i) == SubSeq(q, 1, i - 1) \o SubSeq(q, i + 1, Len(q))

\* DetailsWindow.event_loop, "__DELETE__" confirmed, for the backup the
\* window shows: shutil.rmtree(self.backup.abspath, ignore_errors=True);
\* BACKUPS.remove(self.backup); window.redraw("__TAB_BACKUPS__"), which runs
\* MainWindow.__init__ (init_check = False) and a new event loop
DetailsDelete ==
    /\ gui.pc = "details"
    /\ \E i \in 1..Len(BACKUPS) :
        /\ store' = {d \in store : d.path # BACKUPS[i]}
        /\ BACKUPS' = RemoveAt(BACKUPS, i)
    /\ gui' = [gui EXCEPT !.pc = "read", !.init_check = FALSE]
    /\ UNCHANGED <<restoreVars, treeVars, loader, pollVars, now, envVars, cfg, schedVars, loop, job, ftpVars, launched>>

\* BACKUPS_DIR at start-up: the backup of an earlier run and a directory
\* that is no backup
StartStores ==
    { {[path |-> TimestampName(ReleaseEpoch), dirs |-> <<TRUE>>],
       [path |-> [kind |-> "text", id |-> 0], dirs |-> <<FALSE>>]} }

\* start-up: the loader is about to run; then the main window is up, the
\* server runs, and a control loop that has found a run due is about to
\* start the job thread
InitStore ==
    /\ tz \in {z \in Zones : z.name = "UTC"}
    /\ now = ReleaseEpoch + 2
    /\ armedAt = now
    /\ deadline = now
    /\ cfg = [auto_backup |-> TRUE, interval |-> MIN_AUTO_BACKUP_INTERVAL, last_run |-> now]
    /\ stop_flag = FALSE
    /\ running = TRUE
    /\ thread_running = FALSE
    /\ loop = [l \in Loops |-> IF l = 1 THEN [IdleLoop EXCEPT !.pc = "spawn"] ELSE IdleLoop]
    /\ job = [j \in Jobs |-> NoJob]
    /\ ftp = NoSession
    /\ sess = [s \in Sessions |-> NoSessionObject]
    /\ launched = <<>>
    /\ gui = [pc |-> "read", ret |-> "read", config |-> NoConfig, value |-> FALSE,
              init_check |-> TRUE, events |-> 0]
    /\ NoRestore
    /\ NoPoll
    /\ NoTransfer
    /\ store \in StartStores
    /\ BACKUPS = <<>>
    /\ loader = [pc |-> "loading", todo |-> {d.path : d \in store}, errors |-> 0]

\* the loader runs before the window and the threads exist
Started == loader.pc = "done"

NextStore ==
    \/ LoadStep
    \/ Started /\ GuiDetails
    \/ Started /\ DetailsClose
    \/ Started /\ DetailsDelete
    \/ Started /\ DetailsRestore
    \/ Started /\ RStep
    \/ Started /\ ServerActs
    \/ Started /\ WinStep
    \/ Started /\ PollStep
    \/ Started /\ \E l \in Loops : LoopSpawn(l)
    \/ Started /\ \E j \in Jobs : JobStep(j)

SpecStore == InitStore /\ [][NextStore]_vars

(* ----------------------------- claims ---------------------------------- *)
\* a step in which a control loop compares the clock with the config while
\* the interval has elapsed since the persisted last run
ReadsElapsed(l) ==
    /\ LoopRead(l)
    /\ now >= cfg.last_run + 60 * cfg.interval

\* C1: a single control loop armed at t0 with last_run = t0 launches no job
\* before t0 + interval minutes, and launches exactly one job at the first
\* tick at which now >= last_run + interval minutes.
C1_NoJobBeforeIntervalOneAtFirstDueTick ==
    /\ [](\A k \in 1..Len(launched) : launched[k] >= armedAt + 60 * cfg.interval)
    /\ [][ReadsElapsed(1) => loop'[1].pc = "save"]_vars
    /\ [][LoopSpawn(1) => Len(launched') = Len(launched) + 1 /\ loop'[1].pc = "sleep"]_vars

\* C2: under every interleaving of the control loops with the GUI thread,
\* any two consecutive job launches are at least one interval apart.
C2_ConsecutiveLaunchesOneIntervalApart ==
    \A k \in 1..(Len(launched) - 1) : launched[k + 1] - launched[k] >= 60 * cfg.interval

\* C3: the persisted last_run never decreases, and it changes only in the
\* step in which a control loop that decided to launch saves the config.
C3_LastRunMonotoneOnlyByScheduler ==
    [][/\ cfg'.last_run >= cfg.last_run
       /\ cfg'.last_run # cfg.last_run => \E l \in Loops : LoopSave(l)]_vars

\* a tick reads a config whose last_run is still the default of a fresh install
ReadsFreshConfig(l) ==
    /\ LoopRead(l)
    /\ cfg.last_run = DefaultConfig(cfg.interval).last_run

\* C4 (as claimed): on a fresh install a tick of the control loop that finds
\* the default last_run launches no job.
C4_FreshInstallDoesNotFire ==
    [][\A l \in Loops : ReadsFreshConfig(l) => loop'[l].pc = "sleep"]_vars

\* C4 (amended): on a fresh install the scheduler fires at once: a tick that
\* finds the default last_run decides to launch a job, for every interval
\* and every current time from the release year on.
C4_FreshInstallFiresAtOnce ==
    [][\A l \in Loops : ReadsFreshConfig(l) =>
          /\ loop'[l].pc = "save"
          /\ loop'[l].config.last_run = now]_vars

\* C4 witness: a control loop has just decided to launch on the default config
C4_Witness ==
    \E l \in Loops :
       /\ loop[l].pc = "save"
       /\ cfg = [DefaultConfig(cfg.interval) EXCEPT !.auto_backup = cfg.auto_backup]
       /\ now >= ReleaseEpoch

\* C5: a tick that finds now >= last_run + interval minutes sets last_run to
\* now, persists it and then launches exactly one job thread; the config is
\* written before the thread is started.
C5_DueTickStampsPersistsThenLaunches ==
    /\ [][ReadsElapsed(1) => loop'[1].pc = "save" /\ loop'[1].config.last_run = now]_vars
    /\ [][LoopSave(1) => cfg'.last_run = now /\ loop'[1].pc = "spawn"]_vars
    /\ [][LoopSpawn(1) => /\ cfg.last_run = now
                          /\ launched' = Append(launched, now)
                          /\ loop'[1].pc = "sleep"]_vars

\* the order of the stages of a restore
StageOrder ==
    { <<"None", "__SERVER_STOP__">>, <<"__SERVER_STOP__", "__UPLOAD__">>,
      <<"__UPLOAD__", "__SERVER_START__">>, <<"__SERVER_START__", "__EXIT__">> }

\* C6: the stage field of a restore takes the values StopServer, Upload,
\* StartServer, Done in that order without skipping or revisiting one; the
\* stop command is sent before any file is uploaded, and the start command
\* is sent only after the upload of the whole backup has returned.
C6_StagesInOrderCommandsFollow ==
    /\ [][restorer'.action # restorer.action =>
             <<restorer.action, restorer'.action>> \in StageOrder]_vars
    /\ [][uploaded' # uploaded =>
             /\ requests = <<"stop_async">>
             /\ restorer.action = "__UPLOAD__"]_vars
    /\ [][requests' # requests =>
             \/ requests' = <<"stop_async">> /\ uploaded = 0
                   /\ restorer.action = "__SERVER_STOP__"
             \/ requests' = <<"stop_async", "start_async">> /\ uploaded = NFiles
                   /\ restorer.pc = "start" /\ restorer.action = "__SERVER_START__"]_vars

\* C6 witness: a restore has run through all four stages
C6_Witness ==
    /\ restorer.action = "__EXIT__"
    /\ requests = <<"stop_async", "start_async">>
    /\ uploaded = NFiles

\* C7: a restore enters the Upload stage only after a status read made
\* after the stop command has reported the server as not running, whatever
\* the status documents are.
C7_UploadOnlyAfterReportedStopped ==
    [][restorer'.action = "__UPLOAD__" /\ restorer.action # "__UPLOAD__" =>
          /\ restorer.is_running = "False"
          /\ ~server.is_running]_vars

\* C8 (what it needs of every finite run): once the server has reported
\* not-running and the upload is under way, neither the restore thread nor
\* the progress display is ended other than by a failed transfer before the
\* stage is Done; the display closes only on Done, and the stage never
\* changes after Done.
C8_RestoreAndDisplayEndOnlyAtDone ==
    /\ [](restorer.action = "__UPLOAD__" /\ restorer.is_running = "False" =>
             /\ restorer.pc # "killed"
             /\ rwin.pc \in {"poll", "progress"})
    /\ [](rwin.pc = "closed" => restorer.action = "__EXIT__")
    /\ [][restorer.action = "__EXIT__" => restorer'.action = "__EXIT__"]_vars

\* a step in which an exception ends the restore thread
RestoreRaises ==
    /\ restorer.pc # "dead"
    /\ restorer'.pc = "dead"

\* C9 (as claimed): a transfer failure during the Upload stage, or a status
\* fetch that raises during a wait, aborts the restore: the stage field
\* stays where it was and never becomes Done, the files already uploaded
\* stay, and no start command is ever sent for that restore.
C9_FailureNeverStartsServer ==
    /\ [][RestoreRaises =>
             /\ restorer'.action = restorer.action
             /\ uploaded' = uploaded]_vars
    /\ [](restorer.pc = "dead" =>
             /\ restorer.action # "__EXIT__"
             /\ \A k \in 1..Len(requests) : requests[k] # "start_async")

\* C9 (amended): a transfer failure during the Upload stage, or a status
\* fetch that raises during a wait, aborts the restore: the stage field
\* stays where it was and never becomes Done, the files already uploaded
\* stay, nothing is retried, and nothing is sent to the server after the
\* failure: no start command at all when the failure came before the
\* StartServer stage, only the one already sent when a status fetch raises
\* during the wait for the start.
C9_FailureAbortsRestore ==
    /\ [][RUploadFail => RestoreRaises]_vars
    /\ [][RestoreRaises =>
             /\ restorer'.action = restorer.action
             /\ requests' = requests
             /\ uploaded' = uploaded]_vars
    /\ [][restorer.pc = "dead" =>
             /\ restorer' = restorer
             /\ requests' = requests
             /\ uploaded' = uploaded]_vars
    /\ [](restorer.pc = "dead" =>
             /\ restorer.action \in {"__SERVER_STOP__", "__UPLOAD__", "__SERVER_START__"}
             /\ restorer.action # "__SERVER_START__" => requests = <<"stop_async">>
             /\ rwin.pc # "closed")

\* C9 witness: the transfer failed after part of the backup was uploaded
C9_Witness ==
    /\ restorer.pc = "dead"
    /\ restorer.action = "__UPLOAD__"
    /\ uploaded > 0
    /\ uploaded < NFiles
    /\ requests = <<"stop_async">>

\* C11: a control loop that was asked to stop leaves the loop at its next
\* tick and launches no further job, whenever stop() came and whatever
\* start() did before the tick.
C11_StoppedLoopExitsAtNextTick ==
    [][\A l \in Loops : loop[l].stopped /\ LoopTest(l) => loop'[l].pc = "unmark"]_vars

\* the program state that a call of Scheduler.stop must leave alone
StopFrame ==
    <<now, cfg, running, thread_running, job, ftp, sess, launched, restoreVars, pollVars, treeVars, storeVars,
      [l \in Loops |-> [loop[l] EXCEPT !.stopped = FALSE]]>>

\* C12: stop() changes nothing but the stop flag, and a job thread in flight
\* ends only by a step of its own (completion or failure), never by stop()
\* or by the exit of the control loop.
C12_StopLeavesJobsAlone ==
    /\ [][StopCall \/ Scheduler_stop => stop_flag' /\ StopFrame' = StopFrame]_vars
    /\ [][\A j \in Jobs : JobAlive(j) /\ ~JobAlive(j)' => JobStep(j)]_vars

\* C12 witness: the control loop has exited on the stop flag while a job it
\* launched is still transferring
C12_Witness ==
    /\ stop_flag
    /\ \A l \in Loops : loop[l].pc \in {"idle", "exit"}
    /\ \E j \in Jobs : job[j].pc = "xfer"

\* a step that ends a poll cycle by an exception
PollCycleFails ==
    /\ poller.pc # "dead"
    /\ poller'.pc = "dead"

\* C13: the snapshot changes only at the end of a poll cycle, to the merge
\* of a status response that carries a true result with a feed response of
\* the same cycle; a cycle in which a fetch fails leaves it as it was.
C13_SnapshotIsCompleteMerge ==
    /\ [][status' # status =>
             /\ poller.pc = "feed"
             /\ truthy(get(poller.status_, "result"))
             /\ \E f \in FeedResponses : status' = Merge(poller.status_, f)]_vars
    /\ [][PollCycleFails => status' = status]_vars
    /\ [](poller.pc = "feed" => truthy(get(poller.status_, "result")))
    /\ [](status = EmptyDict
             \/ /\ truthy(get(status, "result"))
                /\ "hostname" \in DOMAIN status)

\* C13 witness: a cycle has failed and the snapshot of an earlier cycle stands
C13_Witness ==
    /\ poller.pc = "dead"
    /\ status # EmptyDict
    /\ "hostname" \in DOMAIN status

\* C14: a status response without a true result does not end the poll loop:
\* the thread is never ended by InvalidResponse.
C14_PollLoopSurvivesInvalidResponse ==
    ~(poller.pc = "dead" /\ poller.error = "InvalidResponse")

\* C15: every shared field has one writing thread.  Where that holds, no
\* thread overwrites what another thread wrote:
\*   - the stop flag is set by the caller of stop() in the GUI thread, so
\*     no control loop clears it;
\*   - the ftp handle, while it holds the session of one job, is changed by
\*     that job only;
\*   - the GUI thread, where it saves the config, finds no config saved by
\*     a control loop (every launch follows such a save);
\*   - the snapshot is written by the poller and the stage by the restorer.
C15_OneWriterPerSharedField ==
    /\ [][stop_flag => stop_flag']_vars
    /\ [][ftp # NoSession /\ ftp' # ftp =>
             \/ \E j \in Jobs : JobStep(j) /\ ftp = j
             \/ RStep /\ ftp = RestoreSession]_vars
    /\ [][GuiSaveConfig =>
             /\ launched = <<>>
             /\ \A l \in Loops : loop[l].pc # "spawn"]_vars
    /\ [][status' # status => PollStep]_vars
    /\ [][restorer'.action # restorer.action => RStep]_vars

\* C16: nothing holds a scheduled backup back while a restore is in
\* progress, and nothing holds a restore back while a backup job runs: the
\* launch step of a control loop and the restore request of the user are
\* enabled whatever the other side does.
C16_LaunchNotHeldBackByRestore ==
    /\ \A l \in Loops :
          loop[l].pc = "spawn" /\ (\E j \in Jobs : job[j].pc = "none") => ENABLED LoopSpawn(l)
    /\ gui.pc = "details" /\ restorer.pc = "none" => ENABLED DetailsRestore

\* C16 witness: a job launched by the control loop is downloading while the
\* restore is in its Upload stage with part of the backup uploaded
C16_Witness ==
    /\ Len(launched) = 1
    /\ \E j \in Jobs : job[j].pc = "xfer"
    /\ RestoreActive
    /\ restorer.action = "__UPLOAD__"
    /\ uploaded > 0

\* C10: at most one download is in flight at any time: a new backup job is
\* started only after the job launched before it has exited.
C10_AtMostOneDownloadInFlight ==
    /\ Cardinality({j \in Jobs : job[j].pc = "xfer"}) <= 1
    /\ \A j \in Jobs : job[j].pc = "connect" => \A k \in Jobs \ {j} : ~JobAlive(k)


\* the directories from the root down to p, p included
Ancestors(p) == {SubSeq(p, 1, i) : i \in 0..Len(p)}

\* p lies in a subtree whose walked path contains an entry of B
InExcludedSubtree(p, B) == \E q \in Ancestors(p) : Blacklisted(q, B)

RECURSIVE SumOfSizes(_)
SumOfSizes(F) ==
    IF F = {} THEN 0
    ELSE LET f == CHOOSE f \in F : TRUE IN Len(f.data) + SumOfSizes(F \ {f})

\* C17: folder_size(T, B) is the sum of the sizes of all files under T except
\* those in a subtree whose walked relative directory path contains some
\* entry of B as a substring.
C17_FolderSizeSumsUnexcludedFiles ==
    op.pc = "sized" =>
        op.size = SumOfSizes({f \in remote.files : ~InExcludedSubtree(f.dir, blacklist)})

\* a size was computed for a tree with a counted file and, below an excluded
\* directory, a directory whose own name has no entry in it, holding a file
C17_Witness ==
    /\ op.pc = "sized"
    /\ op.size > 0
    /\ \E f \in remote.files :
        /\ Len(f.dir) = 2
        /\ Blacklisted(Parent(f.dir), blacklist)
        /\ \A val \in blacklist : ~Contains(f.dir[2], val)

\* C18: a download_folder that returns leaves in the local folder exactly the
\* directories of the remote tree whose subtree is not excluded and their
\* files, at the same relative paths with the same bytes, and nothing from an
\* excluded subtree; it returns whether or not the local folder existed.
C18_DownloadMirrorsUnexcluded ==
    op.pc = "downloaded" =>
        /\ op.ok
        /\ local.dirs = {<<>>} \cup
               {p \in remote.dirs : ~InExcludedSubtree(p, blacklist)}
        /\ local.files = {f \in remote.files : ~InExcludedSubtree(f.dir, blacklist)}

\* a download into a folder that existed, of a tree with a file it fetched
\* into a directory below the top and a file it left out
C18_Witness ==
    /\ op.pc = "downloaded"
    /\ op.ok
    /\ op.existed
    /\ \E f \in local.files : f.dir # <<>>
    /\ \E f \in remote.files : f \notin local.files

\* the file g has a counterpart in the tree L: a file of its name in its
\* directory
HasCounterpart(L, g) == \E f \in L.files : f.dir = g.dir /\ f.name = g.name

\* C19: an upload_folder that returns leaves every file of the local tree on
\* the remote at the mirrored relative path with the same bytes; directories
\* the remote already had do not make it fail; the remote files with no
\* counterpart in the local tree are as they were.
C19_UploadMirrorsAndKeepsOthers ==
    op.pc = "uploaded" =>
        /\ op.ok
        /\ local.files \subseteq remote.files
        /\ \A g \in op.target.files : ~HasCounterpart(local, g) => g \in remote.files

\* an upload that found a directory of the backup on the remote, replaced a
\* file there by the backup's and left a file that the backup does not have
C19_Witness ==
    /\ op.pc = "uploaded"
    /\ op.ok
    /\ \E p \in local.dirs : p # <<>> /\ p \in op.target.dirs
    /\ \E g \in op.target.files : HasCounterpart(local, g) /\ g \notin remote.files
    /\ \E g \in op.target.files : ~HasCounterpart(local, g) /\ g \in remote.files

\* C20: download_folder followed by upload_folder of the resulting backup into
\* a remote directory puts every file of the downloaded tree that is not
\* under an excluded path on the remote, at its relative path with its bytes.
C20_RoundTripReproducesUnexcluded ==
    op.pc = "uploaded" =>
        \A f \in op.source.files :
            ~InExcludedSubtree(f.dir, blacklist) => f \in remote.files

\* a backup uploaded into a directory that was not the one it was taken
\* from: a file below the top came back over a different file of its name,
\* and an excluded file of the source did not
C20_Witness ==
    /\ op.pc = "uploaded"
    /\ op.target # op.source
    /\ \E f \in op.source.files :
        /\ f.dir # <<>>
        /\ ~InExcludedSubtree(f.dir, blacklist)
        /\ \E g \in op.target.files : g.dir = f.dir /\ g.name = f.name /\ g # f
    /\ \E f \in op.source.files :
        /\ InExcludedSubtree(f.dir, blacklist)
        /\ f \notin remote.files

\* C21: within one download or one upload the progress object's total_size
\* is set once, before the first byte is transferred, and stays as it is, and
\* its cum_size never decreases from one observation to the next.
C21_ProgressTotalFixedCumMonotone ==
    [][/\ (op.pc = "sized" /\ op'.pc = "downloaded") =>
            /\ op'.down_stream.total_size = op.down_stream.total_size
            /\ op'.down_stream.cum_size >= op.down_stream.cum_size
       /\ (op.pc = "uploading" /\ op'.pc \in {"uploading", "uploaded"}) =>
            /\ remote' # remote => op.up_stream # NoStream
            /\ op.up_stream # NoStream =>
                /\ op'.up_stream.total_size = op.up_stream.total_size
                /\ op'.up_stream.cum_size >= op.up_stream.cum_size]_vars

\* a backup directory as Backup expects it: named by a timestamp, with a save
\* subdirectory listed first that holds a readable thumbnail
ValidBackup(d) == d.path.kind = "timestamp" /\ Len(d.dirs) >= 1 /\ d.dirs[1]

SeqRange(q) == {q[i] : i \in 1..Len(q)}

\* C22: with N valid and M invalid directories in the backup root the loader
\* never aborts, and when it has finished the list holds exactly the N valid
\* backups, once each, and one load error was logged per invalid directory.
C22_LoaderListsExactlyValid ==
    /\ loader.pc # "aborted"
    /\ loader.pc = "done" =>
        /\ SeqRange(BACKUPS) = {d.path : d \in {e \in store : ValidBackup(e)}}
        /\ Len(BACKUPS) = Cardinality({e \in store : ValidBackup(e)})
        /\ loader.errors = Cardinality({e \in store : ~ValidBackup(e)})

\* the loader finished on a root with a valid backup and two directories
\* that are invalid for different reasons
C22_Witness ==
    /\ loader.pc = "done"
    /\ Len(BACKUPS) >= 1
    /\ \E d \in store : d.path.kind # "timestamp" /\ d.dirs # <<>>
    /\ \E d \in store : d.path.kind = "timestamp" /\ (d.dirs = <<>> \/ ~d.dirs[1])

\* C23: when the download of a backup job fails during the walk, what it has
\* transferred and created stays, last_run keeps the value the launch gave it,
\* and no launch follows earlier than one interval after the launch of the
\* failed job.
C23_FailedJobKeepsFilesNoRetry ==
    /\ [][\A j \in Jobs : JobFail(j) =>
            /\ cfg' = cfg
            /\ sess' = sess
            /\ UNCHANGED <<local, storeVars>>]_vars
    /\ [][\A l \in Loops : LoopSpawn(l) =>
            \A j \in 1..Len(launched) :
                job[j].pc = "dead" => now >= launched[j] + 60 * cfg.interval]_vars

\* C24: start(), stop() and restart() each send one request, to an endpoint
\* of their own, and return without waiting for the server to act on it: the
\* running state of the server, the status snapshot and its poller, the
\* scheduler and the restore are as they were, in whatever state the server is.
C24_CommandSendsOneRequestFrame ==
    [][requests' # requests =>
        /\ \E method \in ServerMethods : requests' = Append(requests, EndpointOf(method))
        /\ \A m1 \in ServerMethods : \A m2 \in ServerMethods :
               EndpointOf(m1) = EndpointOf(m2) => m1 = m2
        /\ server'.is_running = server.is_running
        /\ UNCHANGED <<pollVars, schedVars, cfg, loop, job, launched, restorer, rwin>>]_vars

\* two different commands were sent, the second while the server had not
\* yet acted on it, and the poller has published a snapshot
C24_Witness ==
    /\ Len(requests) = 2
    /\ requests[1] # requests[2]
    /\ server.pending = requests[2]
    /\ status # EmptyDict

\* the names of the directories in the backup store
StorePaths(S) == {d.path : d \in S}

\* C25: the set of directories of the backup store changes only in a step of
\* a download job, which adds one directory named by the timestamp the job
\* took, and in a deletion the user confirmed, which removes one directory
\* and its entry of the list; every other step leaves it as it is.
C25_StoreChangesOnlyByDownloadAndDelete ==
    [][StorePaths(store') # StorePaths(store) =>
        \/ \E j \in Jobs :
              /\ JobCall(j)
              /\ JobDirName(j).kind = "timestamp"
              /\ JobDirName(j) \notin StorePaths(store)
              /\ StorePaths(store') = StorePaths(store) \cup {JobDirName(j)}
              /\ BACKUPS' = BACKUPS
        \/ /\ DetailsDelete
           /\ \E p \in StorePaths(store) :
              /\ StorePaths(store') = StorePaths(store) \ {p}
              /\ p \in SeqRange(BACKUPS)
              /\ SeqRange(BACKUPS') = SeqRange(BACKUPS) \ {p}
              /\ Len(BACKUPS') = Len(BACKUPS) - 1]_vars

\* a job has made its folder, a restore has run, the user has deleted the
\* backup of the earlier run, and the poller has published a snapshot
C25_Witness ==
    /\ JobDirName(1) \in StorePaths(store)
    /\ TimestampName(ReleaseEpoch) \notin StorePaths(store)
    /\ BACKUPS = <<>>
    /\ loader.errors = 1
    /\ restorer.pc # "none"
    /\ status # EmptyDict

\* C26: when Server.status merges the lifecycle response with the telemetry
\* feed, the snapshot has the keys of both documents; a key of the feed,
\* whether or not the lifecycle response has it too, holds the feed's value,
\* and a key of the lifecycle response alone holds the response's value.
C26_MergeFeedWinsOthersUnchanged ==
    [][PollFeed /\ poller'.pc = "sleep" =>
          /\ DOMAIN status' = DOMAIN poller.status_ \cup DOMAIN poller'.feed
          /\ \A k \in DOMAIN poller'.feed : status'[k] = poller'.feed[k]
          /\ \A k \in DOMAIN poller.status_ \ DOMAIN poller'.feed :
                status'[k] = poller.status_[k]]_vars

\* the poller has published a snapshot of a running server whose feed
\* carried is_running with another value than the lifecycle response: the
\* snapshot holds the feed's value, and result and hostname come from the
\* one document that has them
C26_Witness ==
    /\ poller.pc = "sleep"
    /\ server.is_running
    /\ requests = <<>>
    /\ "is_running" \in DOMAIN poller.feed
    /\ DOMAIN status = {"result", "is_running", "hostname"}
    /\ status["is_running"] = "False"
    /\ status["result"] = "True"
    /\ status["hostname"] = "SE"

\* the text of the path under which a walk from "." visits the directory p
PathText(p) ==
    <<".">> \o (IF Len(p) >= 1 THEN <<"/">> \o p[1] ELSE <<>>)
           \o (IF Len(p) >= 2 THEN <<"/">> \o p[2] ELSE <<>>)

\* the text val occurs in the text t
IsSubstring(val, t) == \E i \in 1..(Len(t) + 1) : \E j \in 0..Len(t) : SubSeq(t, i, j) = val

EntryInPath(p, B) == \E val \in B : IsSubstring(val, PathText(p))
EntryInName(f, B) == \E val \in B : IsSubstring(val, f.name)

\* C27: folder_size and download_folder skip a directory exactly when some
\* blacklist entry is a substring of the path under which the walk visits
\* it, related to the entry or not; a file whose own name contains an entry,
\* in a directory whose path contains none, is counted and downloaded.
C27_ExclusionIsSubstringOfWalkedDirPath ==
    /\ op.pc = "sized" =>
          op.size = SumOfSizes({f \in remote.files : ~EntryInPath(f.dir, blacklist)})
    /\ op.pc = "downloaded" =>
          /\ \A p \in remote.dirs \ {<<>>} :
                p \in local.dirs <=> ~EntryInPath(p, blacklist)
          /\ \A f \in remote.files :
                f \in local.files <=> ~EntryInPath(f.dir, blacklist)
          /\ \A f \in remote.files :
                EntryInName(f, blacklist) /\ ~EntryInPath(f.dir, blacklist)
                    => f \in local.files

\* a download under the blacklist ["a"] of a tree with a directory "ba" that
\* holds a file and with a file "af" at the top: the directory and its file
\* were left out, the file "af" was counted and fetched
C27_Witness ==
    /\ op.pc = "downloaded"
    /\ ~op.existed
    /\ blacklist = {<<"a">>}
    /\ <<<<"b", "a">>>> \in remote.dirs
    /\ <<<<"b", "a">>>> \notin local.dirs
    /\ \E f \in remote.files : f.dir = <<<<"b", "a">>>> /\ f \notin local.files
    /\ \E f \in local.files :
          /\ f.dir = <<>>
          /\ f.name = <<"a", "f">>
          /\ op.size = Len(f.data)
          /\ op.down_stream.cum_size = Len(f.data)

C29_IntervalWithinSelectorRange ==
    /\ [](cfg.interval \in MIN_AUTO_BACKUP_INTERVAL..MAX_AUTO_BACKUP_INTERVAL)
    /\ [][\A l \in Loops : LoopRead(l) =>
            cfg.interval \in MIN_AUTO_BACKUP_INTERVAL..MAX_AUTO_BACKUP_INTERVAL]_vars

\* the control loop threads that have been started and have not ended
AliveLoops == {l \in Loops : loop[l].pc \notin {"idle", "exit"}}

\* C30: whatever events the main window has handled (Enable, Disable, a
\* redraw, the start-up check), at most one thread that executes
\* Scheduler.run is alive.
C30_AtMostOneControlLoop == Cardinality(AliveLoops) <= 1

\* a backup job that a control loop has launched is running
SomeJobRuns == \E j \in Jobs : JobAlive(j)

\* C31: Scheduler.thread_running follows the job.  The flag is not left true
\* with no job running and no control loop alive to reset it (so a stop
\* while the job was in flight does not leave it true for good), and a tick
\* that finds a job of this scheduler running does not report false.
C31_FlagTracksJobInFlight ==
    /\ [](AliveLoops = {} /\ ~SomeJobRuns => ~thread_running)
    /\ [][\A l \in Loops : LoopMark(l) /\ SomeJobRuns => thread_running']_vars

\* C32: Scheduler.running is true only while a thread that executes
\* Scheduler.run is alive, however the thread has ended; so the guard of
\* Enable, which reads running, never refuses with no control loop left.
C32_RunningOnlyWhileLoopAlive == running => AliveLoops # {}

\* the sessions other than s are open or closed as before the step
OthersUntouched(s) == \A t \in Sessions \ {s} : sess'[t].open = sess[t].open

\* C33: a backup job and a restore each run their transfer on the session
\* they opened, close that session and no other, reset the shared handle
\* only while it holds their own session, and never find the handle reset
\* when they read it.
C33_EachJobKeepsToItsOwnSession ==
    /\ [](\A j \in Jobs : job[j].pc = "xfer" => job[j].target = j)
    /\ [](restorer.pc = "xfer" => restorer.target = RestoreSession)
    /\ [][\A j \in Jobs :
            /\ JobCall(j) \/ JobClose(j) => ftp # NoSession
            /\ JobClose(j) => OthersUntouched(j)
            /\ JobClear(j) => ftp = j]_vars
    /\ [][/\ RCall \/ RClose => ftp # NoSession
          /\ RClose => OthersUntouched(RestoreSession)
          /\ RClear => ftp = RestoreSession]_vars

\* a progress object of the session, once it is set, has not counted more
\* than its total
WithinTotal(stream) == stream # NoStream => stream.cum_size <= stream.total_size

\* C34: at every observation of a download or an upload the cumulative
\* size of the session's progress object is at most its total size, and
\* when the operation has returned without an error (the tree being what it
\* was when the total was computed) the two are equal: finished is true.
C34_CumWithinTotalAndFinished ==
    /\ WithinTotal(op.down_stream)
    /\ WithinTotal(op.up_stream)
    /\ op.pc = "downloaded" /\ op.ok => op.down_stream.cum_size = op.down_stream.total_size
    /\ op.pc = "uploaded" /\ op.ok => op.up_stream.cum_size = op.up_stream.total_size

\* C35: whenever the restore window, in the Upload stage, reads the upload
\* progress through the shared handle, the session the handle names has an
\* upload progress object, and its total size is positive.
C35_ProgressReadFindsUploadStream ==
    [][WinProgress /\ ftp # NoSession =>
          /\ sess[ftp].up_stream # NoStream
          /\ sess[ftp].up_stream.total_size > 0]_vars

\* the local tree after download_folder has handled the first k items of
\* its walk of the remote tree T
LocalAfter(T, B, k) ==
    DownloadItems(T, B, SubSeq(walk(T, <<>>), 1, k), [ok |-> TRUE, tree |-> EmptyTree]).tree

\* C36: a directory below a directory that the blacklist excludes is
\* excluded too; so when download_folder comes to a directory that it does
\* not exclude, the walk has been at the parent before, has not excluded it,
\* and the local tree holds the parent.
C36_ExclusionClosedUnderDescent ==
    op.pc = "downloaded" =>
        /\ \A p \in remote.dirs : \A q \in remote.dirs :
              IsBelow(q, p) /\ Blacklisted(p, blacklist) => Blacklisted(q, blacklist)
        /\ LET items == walk(remote, <<>>) IN
              \A k \in 1..Len(items) :
                 items[k] # <<>> /\ ~Blacklisted(items[k], blacklist) =>
                    /\ \E i \in 1..(k - 1) :
                          items[i] = Parent(items[k]) /\ ~Blacklisted(items[i], blacklist)
                    /\ Parent(items[k]) \in LocalAfter(remote, blacklist, k - 1).dirs
        /\ \A p \in local.dirs : p # <<>> => Parent(p) \in local.dirs

\* a download that left out a directory for its name and, with it, the
\* directory below, whose own name holds no entry, and that fetched a file
\* from a directory it did not exclude
C36_Witness ==
    /\ op.pc = "downloaded"
    /\ op.ok
    /\ \E q \in remote.dirs :
          /\ Len(q) = 2
          /\ \A val \in blacklist : ~Contains(q[2], val)
          /\ Blacklisted(Parent(q), blacklist)
          /\ q \notin local.dirs
          /\ Parent(q) \notin local.dirs
    /\ \E f \in local.files : TRUE

====
